---------------------------- MODULE Spec2Model ----------------------------
(***************************************************************************)
(* keystroke: evdev key listener (one worker thread per keyboard), the     *)
(* bounded event channel, the GTK-side consumer, the bubble display        *)
(* widget with its ModifierState and per-key press depth, and the xkb      *)
(* keymap translation engine.                                              *)
(***************************************************************************)
EXTENDS Integers, Sequences, FiniteSets, TLC

(***************************************************************************)
(* Bounds of the model.                                                    *)
(***************************************************************************)
\* capacity of the event channel; the program uses bounded(256)
ChanCap == 2
\* raw key events the kernel queues over a run, all devices together
MaxRaw == 2
\* non-repeat key-down reports outstanding in the widget / engine specs
MaxHeld == 2
\* characters the bubbles hold
MaxText == 2
\* engine lookups recorded in one run of the engine specification
MaxTyped == 5
\* listener threads spawned over a run of the manager specification
MaxThreads == 2
\* lines / frames the compositor writes to event streams over a run
MaxLines == 1
\* init() / refresh() calls over a run of the manager specification
MaxUpdates == 1

(***************************************************************************)
(* Program constants.                                                      *)
(***************************************************************************)
MAX_BUBBLES == 10

Devices == {"kbd0", "kbd1"}
FirstDevice == "kbd0"
\* what discover_keyboards may return
Discovered == {{"kbd0"}, {"kbd0", "kbd1"}}

\* keys a keyboard of the listener specification produces
DevKeys == {"KEY_LEFTCTRL", "KEY_A"}
\* ListenerConfig.ignored_keys: a configuration that ignores Caps Lock (no key
\* of DevKeys is ignored, as with the default's empty set)
IgnoredKeys == {"KEY_CAPSLOCK"}
\* the keys and the event values a device may report
AllKeys == DevKeys \cup IgnoredKeys
RawValues == 0..3

NoKey == "none"

(***************************************************************************)
(* Key classes of the bubble widget.                                       *)
(***************************************************************************)
is_modifier_key(key) ==
    key \in {"KEY_LEFTCTRL", "KEY_RIGHTCTRL", "KEY_LEFTALT", "KEY_RIGHTALT",
             "KEY_LEFTMETA", "KEY_RIGHTMETA", "KEY_LEFTSHIFT", "KEY_RIGHTSHIFT"}

is_ignored_key(key) ==
    \/ is_modifier_key(key)
    \/ key \in {"KEY_CAPSLOCK", "KEY_NUMLOCK", "KEY_SCROLLLOCK", "KEY_FN",
                "KEY_ESC", "KEY_INSERT", "KEY_HOME", "KEY_END", "KEY_PAGEUP",
                "KEY_PAGEDOWN", "KEY_UP", "KEY_DOWN", "KEY_LEFT", "KEY_RIGHT",
                "KEY_PRINT", "KEY_PAUSE", "KEY_F1", "KEY_F2", "KEY_F3",
                "KEY_F4", "KEY_F5", "KEY_F6", "KEY_F7", "KEY_F8", "KEY_F9",
                "KEY_F10", "KEY_F11", "KEY_F12"}

\* modifier keys and letter keys the model feeds to the engine
ModKeys == {"KEY_LEFTCTRL", "KEY_RIGHTCTRL", "KEY_LEFTALT", "KEY_LEFTMETA",
            "KEY_LEFTSHIFT", "KEY_RIGHTSHIFT"}
LetterKeys == {"KEY_A", "KEY_H", "KEY_E", "KEY_L", "KEY_O"}
EditKeys == {"KEY_ENTER", "KEY_BACKSPACE"}
PlainKeys == LetterKeys \cup EditKeys

VARIABLES
    \* ---- KeyListener / ListenerHandle (input/listener.rs)
    running,        \* Arc<AtomicBool> shared by listener, handle and workers
    started,        \* start() has returned Ok(ListenerHandle)
    wpc,            \* position of each device worker thread
    poll_n,         \* what the worker's last poll() returned
    batch,          \* events fetched by fetch_events and not yet iterated
    activity,       \* process_events' local flag
    pressed_keys,   \* the worker's locally tracked pressed set
    stuck,          \* stuck_keys still to be released by the reconciliation
    \* ---- kernel side of each evdev device
    devq,           \* events queued in the device's ring buffer
    devstate,       \* authoritative key state (EVIOCGKEY)
    nraw,           \* events queued so far
    \* ---- async_channel::bounded
    chan,           \* queued KeyEvents
    chan_closed,    \* the receiver is gone
    \* ---- BubbleDisplayWidget (ui/bubble.rs) and its XkbState
    xkb_state,      \* [keymap, state, layout_name]
    modifiers,      \* ModifierState
    bubble_pressed_keys, \* HashMap<Key, u32>, 0 = no entry
    bubbles,        \* texts of the chat bubbles, oldest first
    want_new_bubble,
    \* ---- compositor
    reported,       \* layout of the last layout switch the compositor announced
    \* ---- observation
    seqno,          \* try_send attempts made by each worker
    recv_seq,       \* seqno of the last event the consumer took, per device
    rel_sent,       \* Released(k) attempts of the worker's current batch
    rel_seen,       \* value-0 events of k iterated in the current batch
    stuck_at,       \* keys tracked but not held when the batch was reconciled
    reconciled,     \* process_events has just returned from a batch with activity
    stopped,        \* stop() was called or the handle was dropped
    fed,            \* the update_key call of the last widget operation
    last_recv,      \* the event the consumer took last
    depth,          \* non-repeat presses minus releases handed to the widget
    typed,          \* results of the engine lookups
    turn,           \* flips with every widget or engine call
    \* ---- LayoutManager (input/layout.rs)
    mgr_compositor, \* LayoutManager.compositor, "none" before new()
    mgr_client,     \* LayoutManager.client is Some
    layouts,        \* Arc<RwLock<KeyboardLayouts>>: the cached snapshot
    wlock,          \* the listener thread holding the write guard, 0 = none
    stop_flag,      \* Arc<AtomicBool>
    listener_handle, \* Option<JoinHandle>: the thread it joins, 0 = None
    lpc,            \* position of each listener thread
    line,           \* the line or frame a listener thread has read
    mpc,            \* position of the manager's owner thread
    \* ---- observation of the manager
    written_by,     \* the update that wrote names / current_idx last
    nupd,           \* queries made and lines sent so far
    snap,           \* a snapshot layouts() returned and whether its two fields
                    \* came from different updates, until its caller drops it
    ret,            \* the Result of init() / refresh(), until its caller has it
    sl,             \* the last XkbState::set_layout call and what it returned
    \* ---- observation of calls
    start_ret,      \* what discovery found and what KeyListener::start returned
    prev,           \* position of each device's worker of the generation before
    held,           \* keys the consumer has a Pressed for and no Released yet
    call,           \* the last call of a pure function: its input and result
    \* ---- one Sway event stream, byte by byte (listen_sway)
    sframes,        \* the frames the compositor has written, in order
    srd,            \* bytes of the stream the reader has consumed
    spc,            \* position of the reader in its loop
    semitted        \* frames (by position in sframes) a callback was made for

ctl == <<running, started, stopped>>
wrk == <<wpc, poll_n, batch, activity, pressed_keys, stuck>>
dev == <<devq, devstate, nraw>>
chn == <<chan, chan_closed>>
obs == <<seqno, rel_sent, rel_seen, stuck_at, reconciled>>
lvars == <<ctl, wrk, dev, chn, obs>>
wvars == <<xkb_state, modifiers, bubble_pressed_keys, bubbles, want_new_bubble,
           fed, depth>>
ovars == <<reported, recv_seq, last_recv, typed, turn>>
mgrvars == <<mgr_compositor, mgr_client, layouts, wlock, stop_flag, listener_handle,
             lpc, line, mpc, written_by, nupd, snap, ret, sl>>
swayvars == <<sframes, srd, spc, semitted>>
pvars == <<start_ret, prev, held, call, swayvars>>
mvars == <<mgrvars, pvars>>
vars == <<lvars, wvars, ovars, mvars>>


(***************************************************************************)
(* Keymap translation engine (input/xkb.rs).  xkb_state is                 *)
(* [keymap, state, layout_name]; state is the xkb::State: for every        *)
(* modifier key the reference count of its SetMods filter (0 = no filter). *)
(* Keys without an action (letters, Enter, Backspace) leave no trace in an *)
(* xkb::State.                                                             *)
(***************************************************************************)
Layouts == {"English (US)", "German"}

(***************************************************************************)
(* Strings as sequences of characters, with the std operations the code    *)
(* applies to them (ASCII letters only).                                   *)
(***************************************************************************)
UpperCase ==
    <<"A", "B", "C", "D", "E", "F", "G", "H", "I", "J", "K", "L", "M", "N", "O", "P", "Q", "R", "S", "T", "U", "V", "W", "X", "Y", "Z">>
LowerCase ==
    <<"a", "b", "c", "d", "e", "f", "g", "h", "i", "j", "k", "l", "m", "n", "o", "p", "q", "r", "s", "t", "u", "v", "w", "x", "y", "z">>

\* char::to_lowercase
lower(ch) ==
    IF \E i \in 1..Len(UpperCase) : UpperCase[i] = ch
    THEN LowerCase[CHOOSE i \in 1..Len(UpperCase) : UpperCase[i] = ch]
    ELSE ch

\* a conversion that leaves the case alone
to_lowercase_Id(str) == str

\* str::to_lowercase
to_lowercase(str) == [i \in 1..Len(str) |-> lower(str[i])]

\* str::contains(pat): pat occurs as a substring
str_contains(str, pat) ==
    \E i \in 0..(Len(str) - Len(pat)) : SubSeq(str, i + 1, i + Len(pat)) = pat

RECURSIVE trim_start(_)
trim_start(str) ==
    IF str # <<>> /\ Head(str) = " " THEN trim_start(Tail(str)) ELSE str

RECURSIVE trim_end(_)
trim_end(str) ==
    IF str # <<>> /\ str[Len(str)] = " "
    THEN trim_end(SubSeq(str, 1, Len(str) - 1))
    ELSE str

\* str::trim (of spaces)
trim(str) == trim_end(trim_start(str))

\* str::find(ch): the position of the first ch, counted from 1; 0 for None
find(str, ch) ==
    IF \E i \in 1..Len(str) : str[i] = ch
    THEN CHOOSE i \in 1..Len(str) : str[i] = ch /\ \A j \in 1..(i - 1) : str[j] # ch
    ELSE 0

\* char::is_ascii_lowercase
is_ascii_lowercase(ch) == \E i \in 1..Len(LowerCase) : LowerCase[i] = ch

(***************************************************************************)
(* parse_layout_name and its table (input/xkb.rs).                         *)
(***************************************************************************)
\* LAYOUT_NAME_MAP: <<name, layout, variant>> per insert
LAYOUT_NAME_MAP ==
    {<<"Spanish (Latin American)", "latam", "">>,
     <<"Spanish", "es", "">>,
     <<"Spanish (Spain)", "es", "">>,
     <<"Spanish (Dvorak)", "es", "dvorak">>,
     <<"Spanish (Catalan)", "es", "cat">>,
     <<"Spanish (Mexico)", "latam", "">>,
     <<"Spanish (Argentina)", "latam", "">>,
     <<"English (US)", "us", "">>,
     <<"English", "us", "">>,
     <<"US", "us", "">>,
     <<"English (UK)", "gb", "">>,
     <<"English (British)", "gb", "">>,
     <<"British", "gb", "">>,
     <<"English (Dvorak)", "us", "dvorak">>,
     <<"English (Colemak)", "us", "colemak">>,
     <<"English (intl)", "us", "intl">>,
     <<"English (US, intl.)", "us", "intl">>,
     <<"English (US, international)", "us", "intl">>,
     <<"English (US, alt. intl.)", "us", "alt-intl">>,
     <<"English (Macintosh)", "us", "mac">>,
     <<"German", "de", "">>,
     <<"German (Switzerland)", "ch", "de">>,
     <<"German (Austria)", "at", "">>,
     <<"German (Dvorak)", "de", "dvorak">>,
     <<"German (Neo)", "de", "neo">>,
     <<"French", "fr", "">>,
     <<"French (Canada)", "ca", "fr">>,
     <<"French (Belgium)", "be", "">>,
     <<"French (Switzerland)", "ch", "fr">>,
     <<"French (AZERTY)", "fr", "">>,
     <<"French (Dvorak)", "fr", "dvorak">>,
     <<"French (BEPO)", "fr", "bepo">>,
     <<"Portuguese", "pt", "">>,
     <<"Portuguese (Brazil)", "br", "">>,
     <<"Portuguese (Portugal)", "pt", "">>,
     <<"Brazilian", "br", "">>,
     <<"Italian", "it", "">>,
     <<"Italian (Macintosh)", "it", "mac">>,
     <<"Swedish", "se", "">>,
     <<"Norwegian", "no", "">>,
     <<"Danish", "dk", "">>,
     <<"Finnish", "fi", "">>,
     <<"Icelandic", "is", "">>,
     <<"Polish", "pl", "">>,
     <<"Czech", "cz", "">>,
     <<"Slovak", "sk", "">>,
     <<"Hungarian", "hu", "">>,
     <<"Romanian", "ro", "">>,
     <<"Croatian", "hr", "">>,
     <<"Serbian", "rs", "">>,
     <<"Serbian (Latin)", "rs", "latin">>,
     <<"Slovenian", "si", "">>,
     <<"Bulgarian", "bg", "">>,
     <<"Bulgarian (phonetic)", "bg", "phonetic">>,
     <<"Russian", "ru", "">>,
     <<"Russian (phonetic)", "ru", "phonetic">>,
     <<"Ukrainian", "ua", "">>,
     <<"Belarusian", "by", "">>,
     <<"Greek", "gr", "">>,
     <<"Turkish", "tr", "">>,
     <<"Turkish (F)", "tr", "f">>,
     <<"Arabic", "ara", "">>,
     <<"Hebrew", "il", "">>,
     <<"Japanese", "jp", "">>,
     <<"Japanese (Kana)", "jp", "kana">>,
     <<"Korean", "kr", "">>,
     <<"Chinese", "cn", "">>,
     <<"Thai", "th", "">>,
     <<"Vietnamese", "vn", "">>,
     <<"Hindi", "in", "">>,
     <<"Indian", "in", "">>,
     <<"Dutch", "nl", "">>,
     <<"Dutch (Belgium)", "be", "">>,
     <<"Esperanto", "epo", "">>,
     <<"Irish", "ie", "">>,
     <<"Estonian", "ee", "">>,
     <<"Latvian", "lv", "">>,
     <<"Lithuanian", "lt", "">>}

\* names handed to the resolution beyond the table's own keys
LayoutInputs ==
    {"Spanish (Latin American)", "English (US)", "French (Canada)", "de",
     "German", "german", "GERMAN", "english (us)",
     "French (canada)", "German (Klingon)", "Klingon (plqaD)", " Spanish (Foo)",
     "Spanish(x)", " de ", "zz", "thai",
     "us", "latam", "Unknown Layout XYZ", "",
     "  ", "abcdef", "Zz", "de1",
     "(x)"}

\* the characters of every string the resolution handles
Chars ==
    ("Spanish (Latin American)" :> <<"S", "p", "a", "n", "i", "s", "h", " ", "(", "L", "a", "t", "i", "n", " ", "A", "m", "e", "r", "i", "c", "a", "n", ")">>)
    @@ ("Spanish" :> <<"S", "p", "a", "n", "i", "s", "h">>)
    @@ ("Spanish (Spain)" :> <<"S", "p", "a", "n", "i", "s", "h", " ", "(", "S", "p", "a", "i", "n", ")">>)
    @@ ("Spanish (Dvorak)" :> <<"S", "p", "a", "n", "i", "s", "h", " ", "(", "D", "v", "o", "r", "a", "k", ")">>)
    @@ ("Spanish (Catalan)" :> <<"S", "p", "a", "n", "i", "s", "h", " ", "(", "C", "a", "t", "a", "l", "a", "n", ")">>)
    @@ ("Spanish (Mexico)" :> <<"S", "p", "a", "n", "i", "s", "h", " ", "(", "M", "e", "x", "i", "c", "o", ")">>)
    @@ ("Spanish (Argentina)" :> <<"S", "p", "a", "n", "i", "s", "h", " ", "(", "A", "r", "g", "e", "n", "t", "i", "n", "a", ")">>)
    @@ ("English (US)" :> <<"E", "n", "g", "l", "i", "s", "h", " ", "(", "U", "S", ")">>)
    @@ ("English" :> <<"E", "n", "g", "l", "i", "s", "h">>)
    @@ ("US" :> <<"U", "S">>)
    @@ ("English (UK)" :> <<"E", "n", "g", "l", "i", "s", "h", " ", "(", "U", "K", ")">>)
    @@ ("English (British)" :> <<"E", "n", "g", "l", "i", "s", "h", " ", "(", "B", "r", "i", "t", "i", "s", "h", ")">>)
    @@ ("British" :> <<"B", "r", "i", "t", "i", "s", "h">>)
    @@ ("English (Dvorak)" :> <<"E", "n", "g", "l", "i", "s", "h", " ", "(", "D", "v", "o", "r", "a", "k", ")">>)
    @@ ("English (Colemak)" :> <<"E", "n", "g", "l", "i", "s", "h", " ", "(", "C", "o", "l", "e", "m", "a", "k", ")">>)
    @@ ("English (intl)" :> <<"E", "n", "g", "l", "i", "s", "h", " ", "(", "i", "n", "t", "l", ")">>)
    @@ ("English (US, intl.)" :> <<"E", "n", "g", "l", "i", "s", "h", " ", "(", "U", "S", ",", " ", "i", "n", "t", "l", ".", ")">>)
    @@ ("English (US, international)" :> <<"E", "n", "g", "l", "i", "s", "h", " ", "(", "U", "S", ",", " ", "i", "n", "t", "e", "r", "n", "a", "t", "i", "o", "n", "a", "l", ")">>)
    @@ ("English (US, alt. intl.)" :> <<"E", "n", "g", "l", "i", "s", "h", " ", "(", "U", "S", ",", " ", "a", "l", "t", ".", " ", "i", "n", "t", "l", ".", ")">>)
    @@ ("English (Macintosh)" :> <<"E", "n", "g", "l", "i", "s", "h", " ", "(", "M", "a", "c", "i", "n", "t", "o", "s", "h", ")">>)
    @@ ("German" :> <<"G", "e", "r", "m", "a", "n">>)
    @@ ("German (Switzerland)" :> <<"G", "e", "r", "m", "a", "n", " ", "(", "S", "w", "i", "t", "z", "e", "r", "l", "a", "n", "d", ")">>)
    @@ ("German (Austria)" :> <<"G", "e", "r", "m", "a", "n", " ", "(", "A", "u", "s", "t", "r", "i", "a", ")">>)
    @@ ("German (Dvorak)" :> <<"G", "e", "r", "m", "a", "n", " ", "(", "D", "v", "o", "r", "a", "k", ")">>)
    @@ ("German (Neo)" :> <<"G", "e", "r", "m", "a", "n", " ", "(", "N", "e", "o", ")">>)
    @@ ("French" :> <<"F", "r", "e", "n", "c", "h">>)
    @@ ("French (Canada)" :> <<"F", "r", "e", "n", "c", "h", " ", "(", "C", "a", "n", "a", "d", "a", ")">>)
    @@ ("French (Belgium)" :> <<"F", "r", "e", "n", "c", "h", " ", "(", "B", "e", "l", "g", "i", "u", "m", ")">>)
    @@ ("French (Switzerland)" :> <<"F", "r", "e", "n", "c", "h", " ", "(", "S", "w", "i", "t", "z", "e", "r", "l", "a", "n", "d", ")">>)
    @@ ("French (AZERTY)" :> <<"F", "r", "e", "n", "c", "h", " ", "(", "A", "Z", "E", "R", "T", "Y", ")">>)
    @@ ("French (Dvorak)" :> <<"F", "r", "e", "n", "c", "h", " ", "(", "D", "v", "o", "r", "a", "k", ")">>)
    @@ ("French (BEPO)" :> <<"F", "r", "e", "n", "c", "h", " ", "(", "B", "E", "P", "O", ")">>)
    @@ ("Portuguese" :> <<"P", "o", "r", "t", "u", "g", "u", "e", "s", "e">>)
    @@ ("Portuguese (Brazil)" :> <<"P", "o", "r", "t", "u", "g", "u", "e", "s", "e", " ", "(", "B", "r", "a", "z", "i", "l", ")">>)
    @@ ("Portuguese (Portugal)" :> <<"P", "o", "r", "t", "u", "g", "u", "e", "s", "e", " ", "(", "P", "o", "r", "t", "u", "g", "a", "l", ")">>)
    @@ ("Brazilian" :> <<"B", "r", "a", "z", "i", "l", "i", "a", "n">>)
    @@ ("Italian" :> <<"I", "t", "a", "l", "i", "a", "n">>)
    @@ ("Italian (Macintosh)" :> <<"I", "t", "a", "l", "i", "a", "n", " ", "(", "M", "a", "c", "i", "n", "t", "o", "s", "h", ")">>)
    @@ ("Swedish" :> <<"S", "w", "e", "d", "i", "s", "h">>)
    @@ ("Norwegian" :> <<"N", "o", "r", "w", "e", "g", "i", "a", "n">>)
    @@ ("Danish" :> <<"D", "a", "n", "i", "s", "h">>)
    @@ ("Finnish" :> <<"F", "i", "n", "n", "i", "s", "h">>)
    @@ ("Icelandic" :> <<"I", "c", "e", "l", "a", "n", "d", "i", "c">>)
    @@ ("Polish" :> <<"P", "o", "l", "i", "s", "h">>)
    @@ ("Czech" :> <<"C", "z", "e", "c", "h">>)
    @@ ("Slovak" :> <<"S", "l", "o", "v", "a", "k">>)
    @@ ("Hungarian" :> <<"H", "u", "n", "g", "a", "r", "i", "a", "n">>)
    @@ ("Romanian" :> <<"R", "o", "m", "a", "n", "i", "a", "n">>)
    @@ ("Croatian" :> <<"C", "r", "o", "a", "t", "i", "a", "n">>)
    @@ ("Serbian" :> <<"S", "e", "r", "b", "i", "a", "n">>)
    @@ ("Serbian (Latin)" :> <<"S", "e", "r", "b", "i", "a", "n", " ", "(", "L", "a", "t", "i", "n", ")">>)
    @@ ("Slovenian" :> <<"S", "l", "o", "v", "e", "n", "i", "a", "n">>)
    @@ ("Bulgarian" :> <<"B", "u", "l", "g", "a", "r", "i", "a", "n">>)
    @@ ("Bulgarian (phonetic)" :> <<"B", "u", "l", "g", "a", "r", "i", "a", "n", " ", "(", "p", "h", "o", "n", "e", "t", "i", "c", ")">>)
    @@ ("Russian" :> <<"R", "u", "s", "s", "i", "a", "n">>)
    @@ ("Russian (phonetic)" :> <<"R", "u", "s", "s", "i", "a", "n", " ", "(", "p", "h", "o", "n", "e", "t", "i", "c", ")">>)
    @@ ("Ukrainian" :> <<"U", "k", "r", "a", "i", "n", "i", "a", "n">>)
    @@ ("Belarusian" :> <<"B", "e", "l", "a", "r", "u", "s", "i", "a", "n">>)
    @@ ("Greek" :> <<"G", "r", "e", "e", "k">>)
    @@ ("Turkish" :> <<"T", "u", "r", "k", "i", "s", "h">>)
    @@ ("Turkish (F)" :> <<"T", "u", "r", "k", "i", "s", "h", " ", "(", "F", ")">>)
    @@ ("Arabic" :> <<"A", "r", "a", "b", "i", "c">>)
    @@ ("Hebrew" :> <<"H", "e", "b", "r", "e", "w">>)
    @@ ("Japanese" :> <<"J", "a", "p", "a", "n", "e", "s", "e">>)
    @@ ("Japanese (Kana)" :> <<"J", "a", "p", "a", "n", "e", "s", "e", " ", "(", "K", "a", "n", "a", ")">>)
    @@ ("Korean" :> <<"K", "o", "r", "e", "a", "n">>)
    @@ ("Chinese" :> <<"C", "h", "i", "n", "e", "s", "e">>)
    @@ ("Thai" :> <<"T", "h", "a", "i">>)
    @@ ("Vietnamese" :> <<"V", "i", "e", "t", "n", "a", "m", "e", "s", "e">>)
    @@ ("Hindi" :> <<"H", "i", "n", "d", "i">>)
    @@ ("Indian" :> <<"I", "n", "d", "i", "a", "n">>)
    @@ ("Dutch" :> <<"D", "u", "t", "c", "h">>)
    @@ ("Dutch (Belgium)" :> <<"D", "u", "t", "c", "h", " ", "(", "B", "e", "l", "g", "i", "u", "m", ")">>)
    @@ ("Esperanto" :> <<"E", "s", "p", "e", "r", "a", "n", "t", "o">>)
    @@ ("Irish" :> <<"I", "r", "i", "s", "h">>)
    @@ ("Estonian" :> <<"E", "s", "t", "o", "n", "i", "a", "n">>)
    @@ ("Latvian" :> <<"L", "a", "t", "v", "i", "a", "n">>)
    @@ ("Lithuanian" :> <<"L", "i", "t", "h", "u", "a", "n", "i", "a", "n">>)
    @@ ("de" :> <<"d", "e">>)
    @@ ("german" :> <<"g", "e", "r", "m", "a", "n">>)
    @@ ("GERMAN" :> <<"G", "E", "R", "M", "A", "N">>)
    @@ ("english (us)" :> <<"e", "n", "g", "l", "i", "s", "h", " ", "(", "u", "s", ")">>)
    @@ ("French (canada)" :> <<"F", "r", "e", "n", "c", "h", " ", "(", "c", "a", "n", "a", "d", "a", ")">>)
    @@ ("German (Klingon)" :> <<"G", "e", "r", "m", "a", "n", " ", "(", "K", "l", "i", "n", "g", "o", "n", ")">>)
    @@ ("Klingon (plqaD)" :> <<"K", "l", "i", "n", "g", "o", "n", " ", "(", "p", "l", "q", "a", "D", ")">>)
    @@ (" Spanish (Foo)" :> <<" ", "S", "p", "a", "n", "i", "s", "h", " ", "(", "F", "o", "o", ")">>)
    @@ ("Spanish(x)" :> <<"S", "p", "a", "n", "i", "s", "h", "(", "x", ")">>)
    @@ (" de " :> <<" ", "d", "e", " ">>)
    @@ ("zz" :> <<"z", "z">>)
    @@ ("thai" :> <<"t", "h", "a", "i">>)
    @@ ("us" :> <<"u", "s">>)
    @@ ("latam" :> <<"l", "a", "t", "a", "m">>)
    @@ ("Unknown Layout XYZ" :> <<"U", "n", "k", "n", "o", "w", "n", " ", "L", "a", "y", "o", "u", "t", " ", "X", "Y", "Z">>)
    @@ ("" :> <<>>)
    @@ ("  " :> <<" ", " ">>)
    @@ ("abcdef" :> <<"a", "b", "c", "d", "e", "f">>)
    @@ ("Zz" :> <<"Z", "z">>)
    @@ ("de1" :> <<"d", "e", "1">>)
    @@ ("(x)" :> <<"(", "x", ")">>)
    @@ ("Spanish (Foo)" :> <<"S", "p", "a", "n", "i", "s", "h", " ", "(", "F", "o", "o", ")">>)

\* the match on `base` in the parenthetical-prefix step
LanguageBases ==
    {<<<<"s", "p", "a", "n", "i", "s", "h">>, "es">>,
     <<<<"e", "n", "g", "l", "i", "s", "h">>, "us">>,
     <<<<"g", "e", "r", "m", "a", "n">>, "de">>,
     <<<<"f", "r", "e", "n", "c", "h">>, "fr">>,
     <<<<"p", "o", "r", "t", "u", "g", "u", "e", "s", "e">>, "pt">>,
     <<<<"i", "t", "a", "l", "i", "a", "n">>, "it">>,
     <<<<"r", "u", "s", "s", "i", "a", "n">>, "ru">>,
     <<<<"p", "o", "l", "i", "s", "h">>, "pl">>,
     <<<<"d", "u", "t", "c", "h">>, "nl">>,
     <<<<"s", "w", "e", "d", "i", "s", "h">>, "se">>,
     <<<<"n", "o", "r", "w", "e", "g", "i", "a", "n">>, "no">>,
     <<<<"d", "a", "n", "i", "s", "h">>, "dk">>,
     <<<<"f", "i", "n", "n", "i", "s", "h">>, "fi">>,
     <<<<"j", "a", "p", "a", "n", "e", "s", "e">>, "jp">>,
     <<<<"k", "o", "r", "e", "a", "n">>, "kr">>,
     <<<<"c", "h", "i", "n", "e", "s", "e">>, "cn">>}

\* the string with these characters
Str(chars) == CHOOSE str \in DOMAIN Chars : Chars[str] = chars

\* parse_layout_name: the table, the table with the case ignored (no two
\* keys of the table are equal but for case, so the map's iteration order
\* does not show), the word before "(", a short lowercase code, "us"
parse_layout_name(name) ==
    LET exact == {e \in LAYOUT_NAME_MAP : e[1] = name}
        name_lower == to_lowercase(Chars[name])
        nocase == {e \in LAYOUT_NAME_MAP : to_lowercase(Chars[e[1]]) = name_lower}
        paren_pos == find(Chars[name], "(")
        base == to_lowercase(trim(SubSeq(Chars[name], 1, paren_pos - 1)))
        known == {b \in LanguageBases : b[1] = base}
        trimmed == trim(Chars[name])
    IN IF exact # {}
       THEN LET e == CHOOSE e \in exact : TRUE IN <<e[2], e[3]>>
       ELSE IF nocase # {}
       THEN LET e == CHOOSE e \in nocase : TRUE IN <<e[2], e[3]>>
       ELSE IF paren_pos # 0 /\ known # {}
       THEN LET b == CHOOSE b \in known : TRUE IN <<b[2], "">>
       ELSE IF Len(trimmed) <= 5
               /\ \A i \in 1..Len(trimmed) : is_ascii_lowercase(trimmed[i])
       THEN <<Str(trimmed), "">>
       ELSE <<"us", "">>

NoFilters == [k \in ModKeys |-> 0]

\* XkbState::new(): from_layout_name(None), the default keymap
XkbNew == [keymap |-> <<"", "">>, state |-> NoFilters, layout_name |-> "default"]

\* the real modifier a modifier key sets
ModOf(key) ==
    CASE key \in {"KEY_LEFTCTRL", "KEY_RIGHTCTRL"} -> "Control"
      [] key \in {"KEY_LEFTSHIFT", "KEY_RIGHTSHIFT"} -> "Shift"
      [] key = "KEY_LEFTALT" -> "Mod1"
      [] key = "KEY_LEFTMETA" -> "Mod4"
      [] OTHER -> "none"

\* an engine in which every key-up ends all the modifier filters
update_key_UpClearsAll(st, key, pressed) ==
    IF pressed
    THEN IF key \in ModKeys THEN [st EXCEPT !.state[key] = @ + 1] ELSE st
    ELSE [st EXCEPT !.state = NoFilters]

\* xkb_state_update_key: a key-down starts the key's filter or raises its count, a
\* key-up lowers it; the modifier leaves the base set when the last filter ends
update_key(st, key, pressed) ==
    IF key \notin ModKeys THEN st
    ELSE IF pressed
         THEN [st EXCEPT !.state[key] = @ + 1]
         ELSE IF st.state[key] > 0
              THEN [st EXCEPT !.state[key] = @ - 1]
              ELSE st

mod_name_is_active(st, name) ==
    \E k \in ModKeys : ModOf(k) = name /\ st.state[k] > 0

is_shift_active(st) == mod_name_is_active(st, "Shift")
is_ctrl_active(st) == mod_name_is_active(st, "Control")
is_alt_active(st) == mod_name_is_active(st, "Mod1")
is_super_active(st) == mod_name_is_active(st, "Mod4")

Lower(key) ==
    CASE key = "KEY_A" -> "a" [] key = "KEY_H" -> "h" [] key = "KEY_E" -> "e"
      [] key = "KEY_L" -> "l" [] key = "KEY_O" -> "o" [] OTHER -> ""

Upper(key) ==
    CASE key = "KEY_A" -> "A" [] key = "KEY_H" -> "H" [] key = "KEY_E" -> "E"
      [] key = "KEY_L" -> "L" [] key = "KEY_O" -> "O" [] OTHER -> ""

ControlChar == "^"

\* key_get_utf8: "" stands for None.  Control turns a letter into a control
\* character; Enter and Backspace are control characters themselves.
key_get_utf8(st, key) ==
    IF key \in LetterKeys
    THEN IF is_ctrl_active(st) THEN ControlChar
         ELSE IF is_shift_active(st) THEN Upper(key) ELSE Lower(key)
    ELSE IF key \in EditKeys THEN ControlChar
    ELSE ""

NoInput == [t |-> "None", c |-> ""]

key_to_char(key, st) ==
    IF key \in {"KEY_ENTER", "KEY_KPENTER"} THEN [t |-> "NewLine", c |-> ""]
    ELSE IF key \in {"KEY_BACKSPACE", "KEY_DELETE"} THEN [t |-> "Backspace", c |-> ""]
    ELSE IF is_ignored_key(key) THEN NoInput
    ELSE LET utf8 == key_get_utf8(st, key) IN
         IF utf8 = "" THEN NoInput
         ELSE IF utf8 = ControlChar THEN NoInput
         ELSE [t |-> "Char", c |-> utf8]

\* the layouts whose keymap compiles on the host
KeymapCompiles(lv) == lv[1] \in {"", "us", "de"}

\* a set_layout that stores the name before it compiles the keymap
xkb_set_layout_NameFirst(st, name) ==
    LET lv == parse_layout_name(name) IN
    IF KeymapCompiles(lv)
    THEN [keymap |-> lv, state |-> NoFilters, layout_name |-> name]
    ELSE [st EXCEPT !.layout_name = name]

\* XkbState::set_layout: the new keymap and a fresh state, or nothing at all
xkb_set_layout(st, name) ==
    LET lv == parse_layout_name(name) IN
    IF KeymapCompiles(lv)
    THEN [keymap |-> lv, state |-> NoFilters, layout_name |-> name]
    ELSE st

(***************************************************************************)
(* ModifierState (ui/bubble.rs)                                            *)
(***************************************************************************)
ModifierStateDefault == [ctrl |-> FALSE, alt |-> FALSE, super_key |-> FALSE]

ModifierState_update(m, key, pressed) ==
    CASE key \in {"KEY_LEFTCTRL", "KEY_RIGHTCTRL"} -> [m EXCEPT !.ctrl = pressed]
      [] key \in {"KEY_LEFTALT", "KEY_RIGHTALT"} -> [m EXCEPT !.alt = pressed]
      [] key \in {"KEY_LEFTMETA", "KEY_RIGHTMETA"} -> [m EXCEPT !.super_key = pressed]
      [] OTHER -> m

has_command_modifier_CtrlOnly(m) == m.ctrl

has_command_modifier(m) == m.ctrl \/ m.alt \/ m.super_key

(***************************************************************************)
(* Chat bubbles: a bubble is its text, a sequence of characters.           *)
(***************************************************************************)
RECURSIVE DropFront(_)
DropFront(bs) == IF Len(bs) >= MAX_BUBBLES THEN DropFront(Tail(bs)) ELSE bs

create_new_bubble(bs) == Append(DropFront(bs), <<>>)

BackOf(bs) == bs[Len(bs)]
SetBack(bs, text) == [bs EXCEPT ![Len(bs)] = text]
ButLast(s) == SubSeq(s, 1, Len(s) - 1)

\* stale: the last bubble was modified more than new_bubble_timeout ago
ensure_active_bubble(bs, stale) ==
    LET need_new_bubble == IF Len(bs) > 0 THEN stale /\ BackOf(bs) # <<>> ELSE TRUE
    IN IF need_new_bubble THEN create_new_bubble(bs) ELSE bs

\* the Char arm of process_key: [bubbles, want_new_bubble]
AppendChar(bs, want, c, stale) ==
    LET b1 == IF want /\ Len(bs) > 0 /\ BackOf(bs) # <<>>
              THEN create_new_bubble(bs) ELSE bs
        b2 == ensure_active_bubble(b1, stale /\ b1 = bs)
    IN SetBack(b2, Append(BackOf(b2), c))

\* the Backspace arm of process_key
Backspace(bs) ==
    IF Len(bs) = 0 THEN bs
    ELSE IF BackOf(bs) = <<>>
         THEN LET rest == ButLast(bs) IN
              IF Len(rest) > 0 THEN SetBack(rest, ButLast(BackOf(rest))) ELSE rest
         ELSE SetBack(bs, ButLast(BackOf(bs)))

RECURSIVE TotalChars(_)
TotalChars(bs) == IF bs = <<>> THEN 0 ELSE Len(Head(bs)) + TotalChars(Tail(bs))

NoFed == <<NoKey, FALSE>>

(***************************************************************************)
(* BubbleDisplayWidget::process_key and process_key_release                *)
(***************************************************************************)
process_key(key, is_repeat, stale) ==
    IF is_modifier_key(key)
    THEN /\ xkb_state' = IF is_repeat THEN xkb_state ELSE update_key(xkb_state, key, TRUE)
         /\ modifiers' = IF is_repeat THEN modifiers
                         ELSE ModifierState_update(modifiers, key, TRUE)
         /\ fed' = IF is_repeat THEN NoFed ELSE <<key, TRUE>>
         /\ depth' = IF is_repeat THEN depth ELSE [depth EXCEPT ![key] = @ + 1]
         /\ UNCHANGED <<bubble_pressed_keys, bubbles, want_new_bubble>>
    ELSE LET st == IF is_repeat THEN xkb_state ELSE update_key(xkb_state, key, TRUE)
             m == ModifierState_update(modifiers, key, TRUE)
             input == IF has_command_modifier(m) THEN NoInput ELSE key_to_char(key, st)
         IN /\ xkb_state' = st
            /\ modifiers' = m
            /\ fed' = IF is_repeat THEN NoFed ELSE <<key, TRUE>>
            /\ depth' = IF is_repeat THEN depth ELSE [depth EXCEPT ![key] = @ + 1]
            /\ bubble_pressed_keys' = IF is_repeat THEN bubble_pressed_keys
                                      ELSE [bubble_pressed_keys EXCEPT ![key] = @ + 1]
            /\ bubbles' = CASE input.t = "Char" ->
                                 AppendChar(bubbles, want_new_bubble, input.c, stale)
                            [] input.t = "Backspace" -> Backspace(bubbles)
                            [] OTHER -> bubbles
            /\ want_new_bubble' =
                   CASE input.t = "Char" -> FALSE
                     [] input.t = "NewLine" ->
                            IF Len(bubbles) > 0 /\ BackOf(bubbles) # <<>>
                            THEN TRUE ELSE want_new_bubble
                     [] OTHER -> want_new_bubble

process_key_release(key) ==
    /\ depth' = [depth EXCEPT ![key] = IF @ > 0 THEN @ - 1 ELSE 0]
    /\ UNCHANGED <<bubbles, want_new_bubble>>
    /\ IF is_modifier_key(key)
       THEN /\ xkb_state' = update_key(xkb_state, key, FALSE)
            /\ modifiers' = ModifierState_update(modifiers, key, FALSE)
            /\ fed' = <<key, FALSE>>
            /\ UNCHANGED bubble_pressed_keys
       ELSE IF bubble_pressed_keys[key] > 0
            THEN LET count == bubble_pressed_keys[key] - 1 IN
                 /\ bubble_pressed_keys' = [bubble_pressed_keys EXCEPT ![key] = count]
                 /\ xkb_state' = IF count = 0 THEN update_key(xkb_state, key, FALSE)
                                 ELSE xkb_state
                 /\ fed' = IF count = 0 THEN <<key, FALSE>> ELSE NoFed
                 /\ UNCHANGED modifiers
            ELSE /\ xkb_state' = update_key(xkb_state, key, FALSE)
                 /\ fed' = <<key, FALSE>>
                 /\ UNCHANGED <<modifiers, bubble_pressed_keys>>

\* BubbleDisplayWidget::set_layout
set_layout(layout_name) ==
    /\ xkb_state' = xkb_set_layout(xkb_state, layout_name)
    /\ fed' = NoFed
    /\ UNCHANGED <<modifiers, bubble_pressed_keys, bubbles, want_new_bubble, depth>>


(***************************************************************************)
(* Event channel (async_channel::bounded): try_send never waits.           *)
(***************************************************************************)
\* a channel that makes room by dropping its oldest event
try_send_DropOldest(ch, closed, ev) ==
    IF closed THEN [r |-> "Closed", ch |-> ch]
    ELSE IF Len(ch) >= ChanCap THEN [r |-> "Ok", ch |-> Append(Tail(ch), ev)]
    ELSE [r |-> "Ok", ch |-> Append(ch, ev)]

try_send(ch, closed, ev) ==
    IF closed THEN [r |-> "Closed", ch |-> ch]
    ELSE IF Len(ch) >= ChanCap THEN [r |-> "Full", ch |-> ch]
    ELSE [r |-> "Ok", ch |-> Append(ch, ev)]

\* a receiver that takes the newest queued event
try_recv_Newest(ch) == [ev |-> ch[Len(ch)], ch |-> ButLast(ch)]

\* Receiver::try_recv: the oldest queued event
try_recv(ch) == [ev |-> Head(ch), ch |-> Tail(ch)]

KeyEvent(type, key, is_repeat, d, n) ==
    [type |-> type, key |-> key, is_repeat |-> is_repeat, dev |-> d, seq |-> n]

NoEvent == [type |-> "none", key |-> NoKey, is_repeat |-> FALSE, dev |-> "none", seq |-> 0]

\* the match on event.value() in process_events
Classify(key, value, d, n) ==
    CASE value = 1 -> KeyEvent("Pressed", key, FALSE, d, n)
      [] value = 0 -> KeyEvent("Released", key, FALSE, d, n)
      [] value = 2 -> KeyEvent("Pressed", key, TRUE, d, n)
      [] OTHER -> NoEvent

\* a repeat that inserts the key like a press does
PressedAfter_RepeatInserts(set, key, value) ==
    CASE value \in {1, 2} -> set \cup {key}
      [] value = 0 -> set \ {key}
      [] OTHER -> set

PressedAfter(set, key, value) ==
    CASE value = 1 -> set \cup {key}
      [] value = 0 -> set \ {key}
      [] OTHER -> set

\* a reconciliation that finds no key stuck
StuckKeys_None(tracked, actual_state) == {}

\* stuck_keys: tracked keys the device no longer reports
StuckKeys(tracked, actual_state) == {k \in tracked : k \notin actual_state}

\* the orders in which a HashSet may be iterated
Orders(S) ==
    {q \in [1..Cardinality(S) -> S] : \A i, j \in 1..Cardinality(S) : i # j => q[i] # q[j]}

ZeroKeys == [k \in DevKeys |-> 0]

\* the arm `Ok(_n) =>` of the match on poll's result: any n leads to process_events
PollOk(n) == "fetch"

\* a poll error that ends every worker
PollErr_AllExit(pcs, d) == [e \in DOMAIN pcs |-> "done"]

\* the arm `Err(e) =>` of the match on poll's result: this thread breaks
PollErr(pcs, d) == [pcs EXCEPT ![d] = "done"]

\* a worker that goes on after a send on the closed channel
AfterSend_KeepsGoing(r) == "loop"

\* what try_send's result does to the worker: Closed makes process_events
\* return Err("Channel closed"), on which listen_to_device breaks; Ok and Full
\* go on with the next event
AfterSend(r) == IF r = "Closed" THEN "done" ELSE "loop"

(***************************************************************************)
(* Layout manager (input/layout.rs) and the compositors (compositor/).     *)
(***************************************************************************)
\* KeyboardLayouts::default()
KeyboardLayoutsDefault == [names |-> <<>>, current_idx |-> 0]

\* listener threads a run may spawn
Threads == 1..MaxThreads

\* LayoutEvent; type "none" stands for no event
LayoutEvent(type, name, index, snapshot) ==
    [type |-> type, name |-> name, index |-> index, layouts |-> snapshot]
NoLayoutEvent == LayoutEvent("none", "", 0, KeyboardLayoutsDefault)

\* what a listener thread has read and made of it: the line or frame (kind,
\* name, names, idx), the event parsed from it, the names cached when it
\* took the write lock
Line(kind, name, names, idx) ==
    [kind |-> kind, name |-> name, names |-> names, idx |-> idx,
     event |-> NoLayoutEvent, before |-> <<>>]
NoLine == Line("none", "", <<>>, 0)
NoSnap == [taken |-> FALSE, torn |-> FALSE]
NoRet == [resp |-> "none", ok |-> TRUE, result |-> KeyboardLayoutsDefault]
NoCall == [name |-> "", ret |-> FALSE, n |-> 0]
\* start() not called yet
NoStart == [empty |-> FALSE, r |-> "none"]
\* no pure function applied yet
NoPureCall == [fn |-> "none", arg |-> <<>>, res |-> <<>>]

(***************************************************************************)
(* Initial state: a KeyListener and a BubbleDisplayWidget just built.      *)
(***************************************************************************)
Init ==
    /\ running = FALSE
    /\ started = FALSE
    /\ wpc = [d \in Devices |-> "idle"]
    /\ poll_n = [d \in Devices |-> 0]
    /\ batch = [d \in Devices |-> <<>>]
    /\ activity = [d \in Devices |-> FALSE]
    /\ pressed_keys = [d \in Devices |-> {}]
    /\ stuck = [d \in Devices |-> <<>>]
    /\ devq = [d \in Devices |-> <<>>]
    /\ devstate = [d \in Devices |-> {}]
    /\ nraw = 0
    /\ chan = <<>>
    /\ chan_closed = FALSE
    /\ xkb_state = XkbNew
    /\ modifiers = ModifierStateDefault
    /\ bubble_pressed_keys = [k \in PlainKeys |-> 0]
    /\ bubbles = <<>>
    /\ want_new_bubble = FALSE
    /\ reported = "none"
    /\ seqno = [d \in Devices |-> 0]
    /\ recv_seq = [d \in Devices |-> 0]
    /\ rel_sent = [d \in Devices |-> ZeroKeys]
    /\ rel_seen = [d \in Devices |-> ZeroKeys]
    /\ stuck_at = [d \in Devices |-> {}]
    /\ reconciled = [d \in Devices |-> FALSE]
    /\ stopped = FALSE
    /\ fed = NoFed
    /\ last_recv = NoEvent
    /\ depth = [k \in ModKeys \cup PlainKeys |-> 0]
    /\ typed = <<>>
    /\ turn = 0
    /\ mgr_compositor = "none"
    /\ mgr_client = FALSE
    /\ layouts = KeyboardLayoutsDefault
    /\ wlock = 0
    /\ stop_flag = FALSE
    /\ listener_handle = 0
    /\ lpc = [t \in Threads |-> "none"]
    /\ line = [t \in Threads |-> NoLine]
    /\ mpc = 0
    /\ written_by = [names |-> 0, idx |-> 0]
    /\ nupd = [queries |-> 0, lines |-> 0]
    /\ snap = NoSnap
    /\ ret = NoRet
    /\ sl = NoCall
    /\ start_ret = NoStart
    /\ prev = [d \in Devices |-> "idle"]
    /\ held = {}
    /\ call = NoPureCall
    /\ sframes = <<>>
    /\ srd = 0
    /\ spc = "none"
    /\ semitted = {}

(***************************************************************************)
(* KeyListener::start, KeyListener::stop, ListenerHandle::drop             *)
(***************************************************************************)
\* a start() that takes any discovery for a usable one
is_empty_Never(keyboards) == FALSE

\* keyboards.is_empty()
is_empty(keyboards) == keyboards = {}

\* keyboards: what discover_keyboards returned, FirstDevice first;
\* all_keyboards: the config
Start(keyboards, all_keyboards) ==
    /\ ~started
    /\ IF is_empty(keyboards)
       THEN \* bail!("No keyboard devices found...")
            /\ start_ret' = [empty |-> TRUE, r |-> "Err"]
            /\ UNCHANGED <<running, started, wpc>>
       ELSE /\ LET devices_to_use == IF all_keyboards THEN keyboards ELSE {FirstDevice}
               IN wpc' = [d \in Devices |->
                             IF d \in devices_to_use THEN "check" ELSE "idle"]
            /\ running' = TRUE
            /\ started' = TRUE
            /\ start_ret' = [empty |-> keyboards = {}, r |-> "Ok"]
    /\ UNCHANGED <<stopped, poll_n, batch, activity, pressed_keys, stuck>>
    /\ UNCHANGED <<dev, chn, obs, wvars, ovars>>
    /\ UNCHANGED <<mgrvars, prev, held, call, swayvars>>

\* KeyListener::stop
Stop ==
    /\ started
    /\ running
    /\ running' = FALSE
    /\ stopped' = TRUE
    /\ UNCHANGED <<started, wrk, dev, chn, obs, wvars, ovars>>
    /\ UNCHANGED mvars

\* ListenerHandle::drop, of the handle start() returned
DropHandle ==
    /\ started
    /\ running
    /\ running' = FALSE
    /\ stopped' = TRUE
    /\ UNCHANGED <<started, wrk, dev, chn, obs, wvars, ovars>>
    /\ UNCHANGED mvars

(***************************************************************************)
(* listen_to_device: one thread per device                                 *)
(***************************************************************************)
\* while running.load(SeqCst)
WCheck(d) ==
    /\ wpc[d] = "check"
    /\ wpc' = [wpc EXCEPT ![d] = IF running THEN "poll" ELSE "done"]
    /\ rel_sent' = [rel_sent EXCEPT ![d] = ZeroKeys]
    /\ rel_seen' = [rel_seen EXCEPT ![d] = ZeroKeys]
    /\ stuck_at' = [stuck_at EXCEPT ![d] = {}]
    /\ reconciled' = [reconciled EXCEPT ![d] = FALSE]
    /\ UNCHANGED <<poll_n, batch, activity, pressed_keys, stuck, seqno>>
    /\ UNCHANGED <<ctl, dev, chn, wvars, ovars>>
    /\ UNCHANGED mvars

\* poll(&mut poll_fds, 100 ms) returns Ok(n): n = 1 when the device is readable,
\* n = 0 when the timeout ran out; either way process_events is called
WPoll(d) ==
    /\ wpc[d] = "poll"
    /\ poll_n' = [poll_n EXCEPT ![d] = IF devq[d] # <<>> THEN 1 ELSE 0]
    /\ wpc' = [wpc EXCEPT ![d] = PollOk(poll_n'[d])]
    /\ UNCHANGED <<batch, activity, pressed_keys, stuck>>
    /\ UNCHANGED <<ctl, dev, chn, obs, wvars, ovars>>
    /\ UNCHANGED mvars

\* poll returns Err: the worker logs it and breaks
WPollError(d) ==
    /\ wpc[d] = "poll"
    /\ poll_n' = [poll_n EXCEPT ![d] = -1]
    /\ wpc' = PollErr(wpc, d)
    /\ UNCHANGED <<batch, activity, pressed_keys, stuck>>
    /\ UNCHANGED <<ctl, dev, chn, obs, wvars, ovars>>
    /\ UNCHANGED mvars

\* process_events: device.fetch_events() reads the device, which Device::open
\* opened blocking: the read returns once the queue holds events
WFetch(d) ==
    /\ wpc[d] = "fetch"
    /\ devq[d] # <<>>
    /\ batch' = [batch EXCEPT ![d] = devq[d]]
    /\ devq' = [devq EXCEPT ![d] = <<>>]
    /\ activity' = [activity EXCEPT ![d] = FALSE]
    /\ poll_n' = [poll_n EXCEPT ![d] = 0]
    /\ wpc' = [wpc EXCEPT ![d] = "loop"]
    /\ UNCHANGED <<pressed_keys, stuck, devstate, nraw>>
    /\ UNCHANGED <<ctl, chn, obs, wvars, ovars>>
    /\ UNCHANGED mvars

\* one iteration of `for event in events`
WEvent(d) ==
    /\ wpc[d] = "loop"
    /\ batch[d] # <<>>
    /\ LET key == Head(batch[d])[1]
           value == Head(batch[d])[2]
           key_event == Classify(key, value, d, seqno[d] + 1)
           sent == try_send(chan, chan_closed, key_event)
       IN IF key \in IgnoredKeys
          THEN \* continue, before `activity = true`
               /\ batch' = [batch EXCEPT ![d] = Tail(@)]
               /\ UNCHANGED <<wpc, activity, pressed_keys, chan, seqno, rel_sent, rel_seen>>
          ELSE IF key_event = NoEvent
          THEN \* `_ => continue`, after `activity = true`
               /\ batch' = [batch EXCEPT ![d] = Tail(@)]
               /\ activity' = [activity EXCEPT ![d] = TRUE]
               /\ UNCHANGED <<wpc, pressed_keys, chan, seqno, rel_sent, rel_seen>>
          ELSE /\ pressed_keys' = [pressed_keys EXCEPT ![d] = PressedAfter(@, key, value)]
               /\ seqno' = [seqno EXCEPT ![d] = @ + 1]
               /\ rel_sent' = [rel_sent EXCEPT ![d][key] = IF value = 0 THEN @ + 1 ELSE @]
               /\ rel_seen' = [rel_seen EXCEPT ![d][key] = IF value = 0 THEN @ + 1 ELSE @]
               /\ chan' = sent.ch
               /\ wpc' = [wpc EXCEPT ![d] = AfterSend(sent.r)]
               /\ IF wpc'[d] = "done"
                  THEN \* the rest of the batch is dropped with the thread
                       /\ batch' = [batch EXCEPT ![d] = <<>>]
                       /\ activity' = [activity EXCEPT ![d] = FALSE]
                  ELSE /\ batch' = [batch EXCEPT ![d] = Tail(@)]
                       /\ activity' = [activity EXCEPT ![d] = TRUE]
    /\ UNCHANGED <<poll_n, stuck, chan_closed, stuck_at, reconciled>>
    /\ UNCHANGED <<ctl, dev, wvars, ovars>>
    /\ UNCHANGED mvars

\* after the loop: device.get_key_state() and the stuck_keys list
WReconcile(d) ==
    /\ wpc[d] = "loop"
    /\ batch[d] = <<>>
    /\ IF activity[d] /\ pressed_keys[d] # {}
       THEN \E order \in Orders(StuckKeys(pressed_keys[d], devstate[d])) :
               /\ stuck' = [stuck EXCEPT ![d] = order]
               /\ wpc' = [wpc EXCEPT ![d] = IF order = <<>> THEN "check" ELSE "stuck"]
               /\ reconciled' = [reconciled EXCEPT ![d] = (order = <<>>)]
       ELSE /\ stuck' = stuck
            /\ wpc' = [wpc EXCEPT ![d] = "check"]
            /\ reconciled' = [reconciled EXCEPT ![d] = activity[d]]
    /\ stuck_at' = [stuck_at EXCEPT ![d] = pressed_keys[d] \ devstate[d]]
    /\ activity' = [activity EXCEPT ![d] = activity[d] /\ wpc'[d] = "stuck"]
    /\ UNCHANGED <<poll_n, batch, pressed_keys, rel_sent, rel_seen, seqno>>
    /\ UNCHANGED <<ctl, dev, chn, wvars, ovars>>
    /\ UNCHANGED mvars

\* one iteration of `for key in stuck_keys`
WStuck(d) ==
    /\ wpc[d] = "stuck"
    /\ LET key == Head(stuck[d])
           sent == try_send(chan, chan_closed,
                            KeyEvent("Released", key, FALSE, d, seqno[d] + 1))
           last == Tail(stuck[d]) = <<>>
       IN /\ pressed_keys' = [pressed_keys EXCEPT ![d] = @ \ {key}]
          /\ chan' = sent.ch
          /\ seqno' = [seqno EXCEPT ![d] = @ + 1]
          /\ rel_sent' = [rel_sent EXCEPT ![d][key] = @ + 1]
          /\ stuck' = [stuck EXCEPT ![d] = Tail(@)]
          /\ wpc' = [wpc EXCEPT ![d] = IF last THEN "check" ELSE "stuck"]
          /\ reconciled' = [reconciled EXCEPT ![d] = last]
          /\ activity' = [activity EXCEPT ![d] = ~last]
    /\ UNCHANGED <<poll_n, batch, chan_closed, rel_seen, stuck_at>>
    /\ UNCHANGED <<ctl, dev, wvars, ovars>>
    /\ UNCHANGED mvars

Worker(d) ==
    \/ WCheck(d) \/ WPoll(d) \/ WPollError(d) \/ WFetch(d)
    \/ WEvent(d) \/ WReconcile(d) \/ WStuck(d)

(***************************************************************************)
(* The keyboards: while a worker holds the device open the kernel queues   *)
(* an event for every key transition on that file and keeps the key state; *)
(* a release can go unreported (focus change, device replug), which is     *)
(* what the reconciliation is for.                                         *)
(***************************************************************************)
IsOpen(d) == wpc[d] \notin {"idle", "done"}

RawEventUpTo(d, key, value, max) ==
    /\ IsOpen(d)
    /\ nraw < max
    /\ devq' = [devq EXCEPT ![d] = Append(@, <<key, value>>)]
    /\ devstate' = [devstate EXCEPT ![d] = PressedAfter(@, key, value)]
    /\ nraw' = nraw + 1
    /\ UNCHANGED <<ctl, wrk, chn, obs, wvars, ovars>>
    /\ UNCHANGED mvars

RawEvent(d, key, value) == RawEventUpTo(d, key, value, MaxRaw)

KeyDown(d, key) == key \notin devstate[d] /\ RawEvent(d, key, 1)
KeyUp(d, key) == key \in devstate[d] /\ RawEvent(d, key, 0)
KeyRepeat(d, key) == key \in devstate[d] /\ RawEvent(d, key, 2)

LostRelease(d, key) ==
    /\ IsOpen(d)
    /\ key \in devstate[d]
    /\ devstate' = [devstate EXCEPT ![d] = @ \ {key}]
    /\ UNCHANGED <<devq, nraw>>
    /\ UNCHANGED <<ctl, wrk, chn, obs, wvars, ovars>>
    /\ UNCHANGED mvars

\* the receiving end of the channel is dropped
ReceiverDropped ==
    /\ ~chan_closed
    /\ chan_closed' = TRUE
    /\ UNCHANGED chan
    /\ UNCHANGED <<ctl, wrk, dev, obs, wvars, ovars>>
    /\ UNCHANGED mvars

(***************************************************************************)
(* The consumer's `while let Ok(event) = receiver.try_recv()`: one turn    *)
(* takes the oldest event off the channel.  What the turn does with the    *)
(* event is BubbleEvent below.                                             *)
(***************************************************************************)
Recv ==
    /\ ~chan_closed
    /\ chan # <<>>
    /\ LET got == try_recv(chan) IN
       /\ chan' = got.ch
       /\ recv_seq' = [recv_seq EXCEPT ![got.ev.dev] = got.ev.seq]
    /\ UNCHANGED <<chan_closed, reported, last_recv, typed, turn>>
    /\ UNCHANGED <<ctl, wrk, dev, obs, wvars>>
    /\ UNCHANGED mvars

Next ==
    \/ \E keyboards \in Discovered, all_keyboards \in BOOLEAN :
          Start(keyboards, all_keyboards)
    \/ Stop
    \/ DropHandle
    \/ \E d \in Devices : Worker(d)
    \/ \E d \in Devices, key \in DevKeys : KeyDown(d, key)
    \/ \E d \in Devices, key \in DevKeys : KeyUp(d, key)
    \/ \E d \in Devices, key \in DevKeys : KeyRepeat(d, key)
    \/ \E d \in Devices, key \in DevKeys : LostRelease(d, key)
    \/ ReceiverDropped
    \/ Recv

Spec == Init /\ [][Next]_vars

(***************************************************************************)
(* The listener against devices that report any key, ignored ones too, and *)
(* any event value, and against a discovery that may find no keyboard.     *)
(***************************************************************************)
EventNext ==
    \/ \E keyboards \in Discovered \cup {{}}, all_keyboards \in BOOLEAN :
          Start(keyboards, all_keyboards)
    \/ Stop
    \/ \E d \in Devices : Worker(d)
    \/ \E key \in AllKeys, value \in RawValues : RawEvent(FirstDevice, key, value)
    \/ ReceiverDropped
    \/ Recv

EventSpec == Init /\ [][EventNext]_vars

\* the threads are scheduled: a worker that can take a step takes it, and the
\* GTK main loop runs the consumer's timeout; the keyboards owe nothing
FairSpec ==
    /\ Spec
    /\ \A d \in Devices : WF_vars(Worker(d))
    /\ WF_vars(Recv)


(***************************************************************************)
(* A KeyListener that is started again after stop() or after the drop of   *)
(* its handle.  The running flag is one Arc<AtomicBool> for the listener,  *)
(* every handle and every worker; prev follows the workers spawned by the  *)
(* start() before, of which only the position in the loop matters here.    *)
(***************************************************************************)
IsLive(pc) == pc \notin {"idle", "done"}

\* KeyListener::start called again
Restart(keyboards, all_keyboards) ==
    /\ started
    /\ stopped
    /\ ~running
    /\ \A d \in Devices : ~IsLive(prev[d])
    /\ ~is_empty(keyboards)
    /\ LET devices_to_use == IF all_keyboards THEN keyboards ELSE {FirstDevice}
           fresh(d) == d \in devices_to_use
       IN /\ prev' = [d \in Devices |->
                         IF ~IsLive(wpc[d]) THEN "idle"
                         ELSE IF wpc[d] = "check" THEN "check" ELSE "body"]
          /\ wpc' = [d \in Devices |-> IF fresh(d) THEN "check" ELSE "idle"]
          /\ poll_n' = [d \in Devices |-> 0]
          /\ batch' = [d \in Devices |-> <<>>]
          /\ activity' = [d \in Devices |-> FALSE]
          /\ pressed_keys' = [d \in Devices |-> {}]
          /\ stuck' = [d \in Devices |-> <<>>]
          /\ devq' = [d \in Devices |-> <<>>]
    /\ running' = TRUE
    /\ stopped' = FALSE
    /\ UNCHANGED <<started, devstate, nraw, chn, obs, wvars, ovars>>
    /\ UNCHANGED <<mgrvars, start_ret, held, call, swayvars>>

\* `while running.load(SeqCst)` of a worker of the generation before
PrevCheck(d) ==
    /\ prev[d] = "check"
    /\ prev' = [prev EXCEPT ![d] = IF running THEN "body" ELSE "done"]
    /\ UNCHANGED <<lvars, wvars, ovars>>
    /\ UNCHANGED <<mgrvars, start_ret, held, call, swayvars>>

\* the loop body of that worker: poll and process_events, back to the check
PrevBody(d) ==
    /\ prev[d] = "body"
    /\ prev' = [prev EXCEPT ![d] = "check"]
    /\ UNCHANGED <<lvars, wvars, ovars>>
    /\ UNCHANGED <<mgrvars, start_ret, held, call, swayvars>>

RestartNext ==
    \/ \E keyboards \in Discovered, all_keyboards \in BOOLEAN :
          Start(keyboards, all_keyboards)
    \/ Stop
    \/ DropHandle
    \/ \E keyboards \in Discovered, all_keyboards \in BOOLEAN :
          Restart(keyboards, all_keyboards)
    \/ \E d \in Devices : Worker(d)
    \/ \E d \in Devices : PrevCheck(d)
    \/ \E d \in Devices : PrevBody(d)
    \/ \E key \in DevKeys : KeyDown(FirstDevice, key)
    \/ \E key \in DevKeys : KeyUp(FirstDevice, key)
    \/ \E key \in DevKeys : LostRelease(FirstDevice, key)
    \/ Recv

RestartSpec == Init /\ [][RestartNext]_vars

\* C38: a worker spawned by a start() that a stop() or a handle drop followed
\* terminates even when start() is called again before the worker's next
\* flag check: at that check it leaves its loop, so that workers of a stopped
\* generation never run beside the new ones and no device keeps two live
\* workers.
C38_StoppedGenerationExits ==
    [][\A d \in Devices :
          (prev[d] = "check" /\ prev'[d] # prev[d]) => prev'[d] = "done"]_vars

(***************************************************************************)
(* The listener of one keyboard that reports every transition, never       *)
(* stopped, with the keystroke-mode consumer keeping the keys it was told  *)
(* are down (setup_keystroke_event_processing: add_key / remove_key).      *)
(***************************************************************************)
MaxStuckRaw == 4

\* what the consumer holds after an event
HeldAfter(h, ev) ==
    CASE ev.type = "Pressed" /\ ~ev.is_repeat -> h \cup {<<ev.dev, ev.key>>}
      [] ev.type = "Released" -> h \ {<<ev.dev, ev.key>>}
      [] OTHER -> h

\* one turn of `while let Ok(event) = receiver.try_recv()`
ConsumerRecv ==
    /\ ~chan_closed
    /\ chan # <<>>
    /\ LET got == try_recv(chan) IN
       /\ chan' = got.ch
       /\ recv_seq' = [recv_seq EXCEPT ![got.ev.dev] = got.ev.seq]
       /\ held' = HeldAfter(held, got.ev)
    /\ UNCHANGED <<chan_closed, reported, last_recv, typed, turn>>
    /\ UNCHANGED <<ctl, wrk, dev, obs, wvars>>
    /\ UNCHANGED <<mgrvars, start_ret, prev, call, swayvars>>

\* the keyboard: a key goes down, repeats, or goes up
Keyboard(d, key, value) ==
    /\ (value = 1) = (key \notin devstate[d])
    /\ RawEventUpTo(d, key, value, MaxStuckRaw)

StuckNext ==
    \/ Start({FirstDevice}, FALSE)
    \/ Worker(FirstDevice)
    \/ \E key \in DevKeys, value \in 0..2 : Keyboard(FirstDevice, key, value)
    \/ ConsumerRecv

\* the worker thread is scheduled and the GTK main loop runs the consumer's
\* 16 ms timeout; the keyboard owes nothing
FairStuckSpec ==
    /\ Init /\ [][StuckNext]_vars
    /\ WF_vars(Worker(FirstDevice))
    /\ WF_vars(ConsumerRecv)

\* C40: no key stays stuck at the consumer: when the consumer has received a
\* non-repeat Pressed(K) from a device and the device has released K, the
\* consumer eventually receives a Released(K) from that device (unless the
\* device's worker has ended), the channel having been full at the release
\* or not.
C40_NoKeyStuck ==
    \A d \in {FirstDevice}, K \in DevKeys :
        (<<d, K>> \in held /\ K \notin devstate[d])
            ~> (<<d, K>> \notin held \/ wpc[d] = "done")

(***************************************************************************)
(* A display mode of the application (app.rs): start_keystroke_mode and    *)
(* start_bubble_mode call listener.start() in the scrutinee of an `if let  *)
(* Err(e)`, whose value, the Ok(ListenerHandle) included, is a temporary   *)
(* dropped with the statement.  start_ret.r is the handler's position.     *)
(***************************************************************************)
\* listener.start(), with all_keyboards from the config
AppStartMode(keyboards, all_keyboards) ==
    /\ start_ret.r = "none"
    /\ Start(keyboards, all_keyboards)

\* the rest of the handler: the error label or the two timers, the end of
\* the `if let` statement with the drop of start()'s result, present()
AppModeStarted ==
    /\ start_ret.r \in {"Ok", "Err"}
    /\ start_ret' = [start_ret EXCEPT !.r = IF @ = "Ok" THEN "active" ELSE "error"]
    /\ IF start_ret.r = "Ok"
       THEN \* ListenerHandle::drop
            /\ running' = FALSE
            /\ stopped' = TRUE
       ELSE UNCHANGED <<running, stopped>>
    /\ UNCHANGED <<started, wrk, dev, chn, obs, wvars, ovars>>
    /\ UNCHANGED <<mgrvars, prev, held, call, swayvars>>

\* switch_mode or the tray's quit: window.close(); the listener is not told
AppModeClosed ==
    /\ start_ret.r \in {"active", "error"}
    /\ start_ret' = [start_ret EXCEPT !.r = "closed"]
    /\ UNCHANGED <<lvars, wvars, ovars>>
    /\ UNCHANGED <<mgrvars, prev, held, call, swayvars>>

AppNext ==
    \/ \E keyboards \in Discovered \cup {{}}, all_keyboards \in BOOLEAN :
          AppStartMode(keyboards, all_keyboards)
    \/ AppModeStarted
    \/ AppModeClosed
    \/ \E d \in Devices : Worker(d)
    \/ \E d \in Devices, key \in DevKeys : KeyDown(d, key)
    \/ \E d \in Devices, key \in DevKeys : KeyUp(d, key)
    \/ Recv

AppSpec == Init /\ [][AppNext]_vars

\* C37: while a display mode started by start_keystroke_mode or
\* start_bubble_mode is active, its listener keeps running: once
\* listener.start() has succeeded the running flag stays true until the mode
\* is switched or closed.
C37_ListenerRunsWhileModeActive ==
    start_ret.r = "active" => running

(***************************************************************************)
(* Bubble mode on the GTK main thread (app.rs): start_bubble_mode builds   *)
(* the widget and setup_bubble_event_processing hands it the events of the *)
(* channel.  The events are whatever the listener sent.                    *)
(***************************************************************************)
RECURSIVE SumOver(_, _)
SumOver(f, S) ==
    IF S = {} THEN 0
    ELSE LET x == CHOOSE y \in S : TRUE IN f[x] + SumOver(f, S \ {x})

Held == SumOver(depth, DOMAIN depth)

BubbleKeys == {"KEY_LEFTCTRL", "KEY_LEFTSHIFT", "KEY_A", "KEY_ENTER"}

BubbleEvents ==
    {KeyEvent("Pressed", k, r, "none", 0) : k \in BubbleKeys, r \in BOOLEAN}
    \cup {KeyEvent("Released", k, FALSE, "none", 0) : k \in BubbleKeys}

\* the body of `while let Ok(event) = receiver.try_recv()`
BubbleEvent(event, stale) ==
    /\ event.type = "Pressed" /\ ~event.is_repeat => Held < MaxHeld
    /\ event.type = "Pressed" => TotalChars(bubbles) < MaxText
    /\ last_recv' = event
    /\ turn' = 1 - turn
    /\ IF event.type = "Pressed"
       THEN process_key(event.key, event.is_repeat, stale)
       ELSE /\ fed' = NoFed
            /\ UNCHANGED <<xkb_state, modifiers, bubble_pressed_keys, bubbles,
                           want_new_bubble, depth>>
    /\ UNCHANGED <<reported, recv_seq, typed>>
    /\ UNCHANGED lvars
    /\ UNCHANGED mvars

\* the compositor announces that the active layout switched to name; bubble
\* mode holds no LayoutManager and registers no callback
CompositorSwitch(name) ==
    /\ reported # name
    /\ reported' = name
    /\ UNCHANGED <<recv_seq, last_recv, typed, turn>>
    /\ UNCHANGED <<lvars, wvars>>
    /\ UNCHANGED mvars

BubbleNext ==
    \/ \E event \in BubbleEvents, stale \in BOOLEAN : BubbleEvent(event, stale)
    \/ \E name \in Layouts : CompositorSwitch(name)

BubbleSpec == Init /\ [][BubbleNext]_vars

\* the GTK main loop keeps running the 16 ms timeout that drains the channel
FairBubbleSpec ==
    /\ BubbleSpec
    /\ WF_vars(\E event \in BubbleEvents, stale \in BOOLEAN : BubbleEvent(event, stale))

(***************************************************************************)
(* The BubbleDisplayWidget driven through its public methods.              *)
(***************************************************************************)
WidgetKeys == {"KEY_LEFTCTRL", "KEY_RIGHTCTRL", "KEY_LEFTALT", "KEY_LEFTSHIFT",
               "KEY_A", "KEY_BACKSPACE"}

WProcessKey(key, is_repeat, stale) ==
    /\ ~is_repeat => Held < MaxHeld
    /\ TotalChars(bubbles) < MaxText
    /\ turn' = 1 - turn
    /\ process_key(key, is_repeat, stale)
    /\ UNCHANGED <<reported, recv_seq, last_recv, typed>>
    /\ UNCHANGED lvars
    /\ UNCHANGED mvars

WProcessKeyRelease(key) ==
    /\ turn' = 1 - turn
    /\ process_key_release(key)
    /\ UNCHANGED <<reported, recv_seq, last_recv, typed>>
    /\ UNCHANGED lvars
    /\ UNCHANGED mvars

WSetLayout(name) ==
    /\ turn' = 1 - turn
    /\ set_layout(name)
    /\ UNCHANGED <<reported, recv_seq, last_recv, typed>>
    /\ UNCHANGED lvars
    /\ UNCHANGED mvars

WidgetNext ==
    \/ \E key \in WidgetKeys, is_repeat \in BOOLEAN, stale \in BOOLEAN :
          WProcessKey(key, is_repeat, stale)
    \/ \E key \in WidgetKeys : WProcessKeyRelease(key)
    \/ \E name \in Layouts : WSetLayout(name)

WidgetSpec == Init /\ [][WidgetNext]_vars

XkbLetters == {"KEY_H", "KEY_E", "KEY_L", "KEY_O"}
\* the keys the test looks up, in its order
Hello == <<"KEY_H", "KEY_E", "KEY_L", "KEY_L", "KEY_O">>
XkbKeys == {"KEY_LEFTSHIFT", "KEY_RIGHTSHIFT"} \cup XkbLetters

ShiftHeld == depth["KEY_LEFTSHIFT"] + depth["KEY_RIGHTSHIFT"]

XkbUpdateKey(key, pressed) ==
    /\ pressed /\ key \in ModKeys => Held < MaxHeld
    /\ xkb_state' = update_key(xkb_state, key, pressed)
    /\ fed' = <<key, pressed>>
    /\ depth' = IF key \notin ModKeys THEN depth
                ELSE IF pressed THEN [depth EXCEPT ![key] = @ + 1]
                ELSE [depth EXCEPT ![key] = IF @ > 0 THEN @ - 1 ELSE 0]
    /\ turn' = 1 - turn
    /\ UNCHANGED <<modifiers, bubble_pressed_keys, bubbles, want_new_bubble>>
    /\ UNCHANGED <<reported, recv_seq, last_recv, typed>>
    /\ UNCHANGED lvars
    /\ UNCHANGED mvars

\* key_to_char(key, &xkb_state), the result noted with whether a shift key was down
XkbLookup(key) ==
    /\ Len(typed) < MaxTyped
    /\ key = Hello[(Len(typed) % Len(Hello)) + 1]
    /\ typed' = Append(typed, [key |-> key, shift |-> ShiftHeld > 0,
                               input |-> key_to_char(key, xkb_state)])
    /\ fed' = NoFed
    /\ turn' = 1 - turn
    /\ UNCHANGED <<xkb_state, modifiers, bubble_pressed_keys, bubbles, want_new_bubble,
                   depth>>
    /\ UNCHANGED <<reported, recv_seq, last_recv>>
    /\ UNCHANGED lvars
    /\ UNCHANGED mvars

XkbNext ==
    \/ \E key \in XkbKeys, pressed \in BOOLEAN : XkbUpdateKey(key, pressed)
    \/ \E key \in XkbLetters : XkbLookup(key)

XkbSpec == Init /\ [][XkbNext]_vars


(***************************************************************************)
(* Claims about the listener (Spec, FairSpec).                             *)
(***************************************************************************)
WorkersGone == \A d \in Devices : wpc[d] \in {"idle", "done"}

\* C1: after stop() or the drop of the handle the running flag is false and
\* every worker the listener spawned eventually leaves its loop.
C1_StoppedWorkersLeave == stopped ~> WorkersGone

\* C2: a worker fetches pending events only when its poll reported the device
\* readable; after a poll that timed out it goes back to the stop flag.
C2_FetchOnlyWhenReadable ==
    \A d \in Devices : wpc[d] = "fetch" => poll_n[d] > 0

\* C5: when process_events returns from a batch with activity, every key that
\* was tracked but no longer held on the device has had exactly one Released
\* sent beyond the releases the batch itself carried and is tracked no more;
\* every other key has had exactly the releases the batch carried.
C5_OneReleasedPerStuckKey ==
    \A d \in Devices :
        reconciled[d] =>
            /\ \A k \in DevKeys :
                  rel_sent[d][k] = rel_seen[d][k] + (IF k \in stuck_at[d] THEN 1 ELSE 0)
            /\ stuck_at[d] \cap pressed_keys[d] = {}

C5_Witness ==
    \E d \in Devices : reconciled[d] /\ stuck_at[d] # {}

Sending(d) == seqno'[d] # seqno[d]

\* C6: a send on the full channel returns at once: the channel keeps its
\* events in their order, the new event is gone, the worker stays in its
\* batch; and a worker inside a batch can always take its next step.
C6_FullChannelDropsNewest ==
    /\ [](\A d \in Devices :
            /\ wpc[d] = "loop" /\ batch[d] # <<>> => ENABLED WEvent(d)
            /\ wpc[d] = "stuck" => ENABLED WStuck(d))
    /\ [][\A d \in Devices :
            Sending(d) /\ Len(chan) = ChanCap /\ ~chan_closed =>
                /\ chan' = chan
                /\ wpc'[d] \in {"loop", "stuck", "check"}
                /\ wpc[d] = "loop" => batch'[d] = Tail(batch[d]) /\ wpc'[d] = "loop"]_vars

InChan(d, n) == \E i \in 1..Len(chan) : chan[i].dev = d /\ chan[i].seq = n

\* the event a worker sent last is neither queued nor received: it was dropped
C6_Witness ==
    /\ ~chan_closed
    /\ Len(chan) = ChanCap
    /\ \E d \in Devices :
          /\ seqno[d] > recv_seq[d]
          /\ ~InChan(d, seqno[d])
          /\ wpc[d] \in {"loop", "stuck", "check", "poll", "fetch"}

\* C7: the events of one device leave the channel in the order the worker
\* sent them: those queued are in sending order and all later than the last
\* one the consumer received.
C7_PerDeviceOrder ==
    \A i, j \in 1..Len(chan) :
        /\ chan[i].seq > recv_seq[chan[i].dev]
        /\ i < j /\ chan[i].dev = chan[j].dev => chan[i].seq < chan[j].seq

C7_Witness ==
    /\ Len(chan) = 2
    /\ chan[1].dev # chan[2].dev
    /\ \E d \in Devices : recv_seq[d] > 0 /\ \E i \in 1..2 : chan[i].dev = d


(***************************************************************************)
(* Claims about bubble mode (BubbleSpec, FairBubbleSpec).                  *)
(***************************************************************************)
\* C3: every Released event the bubble-mode consumer takes off the channel
\* reaches update_key(key, false) on the widget's engine.
C3_ReleasedReachesEngine ==
    [][turn' # turn /\ last_recv'.type = "Released" =>
           fed' = <<last_recv'.key, FALSE>>]_vars

\* C4: whenever the compositor has announced a switch to layout L, the engine
\* of the bubble display eventually has L as its layout.
C4_LayoutFollowsCompositor ==
    \A L \in Layouts : (reported = L) ~> (xkb_state.layout_name = L)

(***************************************************************************)
(* Claims about the widget (WidgetSpec).                                   *)
(***************************************************************************)
\* C8: the widget feeds key-up for a key to the engine only with the release
\* that brings the key's count of non-repeat presses back to zero.
C8_KeyUpOnLastRelease ==
    [][\A k \in WidgetKeys :
          turn' # turn /\ fed' = <<k, FALSE>> => depth'[k] = 0]_vars

\* C9: after every widget call ModifierState.ctrl, alt and super_key say what
\* the engine says about Control, Alt (Mod1) and Super (Mod4).
C9_ModifierStateLockStep ==
    /\ modifiers.ctrl = is_ctrl_active(xkb_state)
    /\ modifiers.alt = is_alt_active(xkb_state)
    /\ modifiers.super_key = is_super_active(xkb_state)

(***************************************************************************)
(* Claims about the engine (XkbSpec).                                      *)
(***************************************************************************)
ShiftKeys == {"KEY_LEFTSHIFT", "KEY_RIGHTSHIFT"}

\* C10: a letter looked up while a shift key (left or right) is down is its
\* uppercase character, and its lowercase character otherwise; the release of
\* a letter key leaves the engine's shift as it was; the release of the only
\* shift key that is down ends it.
C10_ShiftPersists ==
    /\ [](\A i \in 1..Len(typed) :
            typed[i].input =
                [t |-> "Char",
                 c |-> IF typed[i].shift THEN Upper(typed[i].key) ELSE Lower(typed[i].key)])
    /\ [][turn' # turn /\ ~fed'[2] =>
            /\ fed'[1] \in XkbLetters =>
                  is_shift_active(xkb_state') = is_shift_active(xkb_state)
            /\ fed'[1] \in ShiftKeys /\ ShiftHeld = 1 /\ depth[fed'[1]] = 1 =>
                  ~is_shift_active(xkb_state')]_vars

\* HELLO typed in capitals with shift down, then the shift key released
C10_Witness ==
    /\ Len(typed) = Len(Hello)
    /\ \A i \in 1..Len(Hello) :
          typed[i].shift /\ typed[i].input = [t |-> "Char", c |-> Upper(Hello[i])]
    /\ fed = <<"KEY_RIGHTSHIFT", FALSE>>
    /\ ShiftHeld = 0
    /\ ~is_shift_active(xkb_state)


(***************************************************************************)
(* XkbState::set_layout called on a live engine (SetLayoutSpec).           *)
(***************************************************************************)
\* a short lowercase name parse_layout_name passes through and xkb has no
\* symbols for
UnknownLayout == "zz"
LayoutNames == Layouts \cup {UnknownLayout}

\* the flag XkbState::set_layout returns
set_layout_returns(st, name) == KeymapCompiles(parse_layout_name(name))

XkbSetLayout(name) ==
    /\ xkb_state' = xkb_set_layout(xkb_state, name)
    /\ sl' = [name |-> name, ret |-> set_layout_returns(xkb_state, name), n |-> 1 - sl.n]
    /\ fed' = NoFed
    /\ turn' = 1 - turn
    /\ UNCHANGED <<modifiers, bubble_pressed_keys, bubbles, want_new_bubble, depth>>
    /\ UNCHANGED <<reported, recv_seq, last_recv, typed>>
    /\ UNCHANGED lvars
    /\ UNCHANGED <<mgr_compositor, mgr_client, layouts, wlock, stop_flag, listener_handle,
                   lpc, line, mpc, written_by, nupd, snap, ret>>
    /\ UNCHANGED pvars

SetLayoutNext ==
    \/ \E key \in XkbKeys, pressed \in BOOLEAN : XkbUpdateKey(key, pressed)
    \/ \E name \in LayoutNames : XkbSetLayout(name)

SetLayoutSpec == Init /\ [][SetLayoutNext]_vars

\* C11: a set_layout(name) that returns true leaves the keymap compiled for
\* name, a fresh state with no modifier active and layout_name = name; one
\* that returns false leaves keymap, state and layout_name as they were.
C11_SetLayoutAtomic ==
    [][sl' # sl =>
          IF sl'.ret
          THEN /\ xkb_state' = [keymap |-> parse_layout_name(sl'.name),
                                state |-> NoFilters, layout_name |-> sl'.name]
               /\ ~is_shift_active(xkb_state')
          ELSE xkb_state' = xkb_state]_vars

\* a failed switch on an engine that holds German with shift down
C11_Witness ==
    /\ sl.n = 1
    /\ sl.name = UnknownLayout
    /\ ~sl.ret
    /\ xkb_state.layout_name = "German"
    /\ is_shift_active(xkb_state)


(***************************************************************************)
(* Compositor clients (compositor/): what a query answers and what the     *)
(* event streams carry.                                                    *)
(***************************************************************************)
Compositors == {"Hyprland", "Sway", "Niri", "River"}

supports_layout_events(c) == c \in {"Hyprland", "Sway", "Niri"}

\* create_client: a client only for the three compositors, and only when its
\* socket exists
create_client(c, socket_exists) == c \in {"Hyprland", "Sway", "Niri"} /\ socket_exists

\* layout lists a compositor may report
NameLists == {<<>>, <<"English (US)">>, <<"English (US)", "German">>,
              <<"English (US)", "English (US)">>}
Indexes == {0, 1}

\* a response: well-formed with names and index, or a malformed one
Response(kind, names, idx) ==
    [kind |-> kind, names |-> names, idx |-> idx, active |-> ""]
\* a well-formed answer names a current layout that is in its list
WellFormed == {nl \in NameLists \X Indexes : nl[2] = 0 \/ nl[2] < Len(nl[1])}
Responses(c) ==
    {Response("good", nl[1], nl[2]) : nl \in WellFormed}
    \cup {Response(k, <<>>, 0) :
            k \in {"keys_missing", "not_utf8"}
                  \cup (IF c = "Sway" THEN {"bad_magic"} ELSE {})}

RECURSIVE Dedup(_, _)
\* names in order of first occurrence (the `seen_layouts` HashSet)
Dedup(names, seen) ==
    IF names = <<>> THEN <<>>
    ELSE IF Head(names) \in seen THEN Dedup(Tail(names), seen)
    ELSE <<Head(names)>> \o Dedup(Tail(names), seen \cup {Head(names)})

\* the `!name.is_empty()` / `!current.is_empty()` tests of the three parsers
NonEmpty(names) == SelectSeq(names, LAMBDA name : name # "")

\* HyprlandClient::parse_devices_response: the active keymaps, no index
parse_devices_response(json) ==
    IF json.kind = "good"
    THEN [names |-> Dedup(NonEmpty(json.names), {}), current_idx |-> 0]
    ELSE KeyboardLayoutsDefault

\* SwayClient::parse_inputs_response
parse_inputs_response(json) ==
    IF json.kind = "good"
    THEN LET names == Dedup(NonEmpty(json.names), {})
         IN [names |-> IF names = <<>> /\ json.active # ""
                       THEN <<json.active>> ELSE names,
             current_idx |-> json.idx]
    ELSE KeyboardLayoutsDefault

\* NiriClient::parse_layouts_response
parse_layouts_response(json) ==
    IF json.kind = "good"
    THEN [names |-> NonEmpty(json.names), current_idx |-> json.idx]
    ELSE KeyboardLayoutsDefault

QueryOk(snapshot) == [ok |-> TRUE, layouts |-> snapshot]
QueryErr == [ok |-> FALSE, layouts |-> KeyboardLayoutsDefault]

\* CompositorClient::get_keyboard_layouts: the transport's `?` first (a payload
\* that is not UTF-8, for Sway also a header without the magic), then the parser
get_keyboard_layouts(c, resp) ==
    IF resp.kind = "not_utf8" THEN QueryErr
    ELSE IF c = "Sway" /\ resp.kind = "bad_magic" THEN QueryErr
    ELSE QueryOk(CASE c = "Hyprland" -> parse_devices_response(resp)
                   [] c = "Sway" -> parse_inputs_response(resp)
                   [] OTHER -> parse_layouts_response(resp))

\* LayoutManager::fetch_layouts
fetch_layouts(has_client, c, resp) ==
    IF has_client THEN get_keyboard_layouts(c, resp)
    ELSE QueryOk(KeyboardLayoutsDefault)


(***************************************************************************)
(* LayoutManager on its owner's thread: new, init, refresh, layouts,       *)
(* start_listener, stop_listener (which Drop calls too).                   *)
(***************************************************************************)
others == <<lvars, wvars, ovars, pvars>>

\* LayoutManager::new: c is what detect() found
MgrNew(c, socket_exists) ==
    /\ mgr_compositor = "none"
    /\ mgr_compositor' = c
    /\ mgr_client' = create_client(c, socket_exists)
    /\ UNCHANGED <<layouts, wlock, stop_flag, listener_handle, lpc, line, mpc,
                   written_by, nupd, snap, ret, sl>>
    /\ UNCHANGED others

\* a cache that is emptied when the query fails
StoreResult_ClearOnErr(cache, res) ==
    IF res.ok THEN res.layouts ELSE KeyboardLayoutsDefault

\* `*guard = layouts` in the Ok arm, nothing in the Err arm
StoreResult(cache, res) == IF res.ok THEN res.layouts ELSE cache

\* a read lock that is granted while a writer holds the lock
CanRead_Always(lock) == TRUE

\* RwLock::read / RwLock::write are granted when no write guard is out
CanRead(lock) == lock = 0

\* RwLock::write is granted when no guard is out (readers here hold theirs
\* for one step only)
CanWrite(lock) == lock = 0

\* a mark for an update that neither field of the cache carries yet
FreshStamp(wb) == CHOOSE i \in 1..3 : i # wb.names /\ i # wb.idx

\* the body init() and refresh() share: fetch_layouts, then the store
Query(resp) ==
    /\ mgr_compositor # "none"
    /\ mpc = 0
    /\ ret = NoRet
    /\ nupd.queries < MaxUpdates
    /\ CanWrite(wlock)
    /\ LET res == fetch_layouts(mgr_client, mgr_compositor, resp) IN
       /\ layouts' = StoreResult(layouts, res)
       /\ nupd' = [nupd EXCEPT !.queries = @ + 1]
       /\ written_by' = IF res.ok
                        THEN [names |-> FreshStamp(written_by),
                              idx |-> FreshStamp(written_by)]
                        ELSE written_by
       /\ ret' = [resp |-> resp.kind, ok |-> res.ok, result |-> res.layouts]
    /\ UNCHANGED <<mgr_compositor, mgr_client, wlock, stop_flag, listener_handle, lpc,
                   line, mpc, snap, sl>>
    /\ UNCHANGED others

\* init: the match on fetch_layouts()
MgrInit(resp) == Query(resp)
\* refresh: fetch_layouts()? and the store
MgrRefresh(resp) == Query(resp)

\* init() or refresh() has returned and the caller has looked at the Result
MgrReturns ==
    /\ ret # NoRet
    /\ ret' = NoRet
    /\ UNCHANGED <<mgr_compositor, mgr_client, layouts, wlock, stop_flag, listener_handle,
                   lpc, line, mpc, written_by, nupd, snap, sl>>
    /\ UNCHANGED others

\* LayoutManager::layouts, called by any thread
ReadLayouts ==
    /\ mgr_compositor # "none"
    /\ ~snap.taken
    /\ CanRead(wlock)
    /\ snap' = [taken |-> TRUE, torn |-> written_by.names # written_by.idx]
    /\ UNCHANGED <<mgr_compositor, mgr_client, layouts, wlock, stop_flag, listener_handle,
                   lpc, line, mpc, written_by, nupd, ret, sl>>
    /\ UNCHANGED others

\* the caller drops the snapshot layouts() gave it
DropSnapshot ==
    /\ snap.taken
    /\ snap' = NoSnap
    /\ UNCHANGED <<mgr_compositor, mgr_client, layouts, wlock, stop_flag, listener_handle,
                   lpc, line, mpc, written_by, nupd, ret, sl>>
    /\ UNCHANGED others

FreeThreads == {t \in Threads : lpc[t] = "none"}
Alive == {t \in Threads : lpc[t] \notin {"none", "done"}}

\* LayoutManager::start_listener
StartListener ==
    /\ mgr_compositor # "none"
    /\ mpc = 0
    /\ ret = NoRet
    /\ IF ~supports_layout_events(mgr_compositor)
       THEN UNCHANGED <<lpc, listener_handle>>
       ELSE /\ FreeThreads # {}
            /\ LET t == CHOOSE x \in FreeThreads : \A y \in FreeThreads : x <= y IN
               /\ lpc' = [lpc EXCEPT ![t] = "subscribe"]
               /\ listener_handle' = t
    /\ UNCHANGED <<mgr_compositor, mgr_client, layouts, wlock, stop_flag, line, mpc,
                   written_by, nupd, snap, ret, sl>>
    /\ UNCHANGED others

\* LayoutManager::stop_listener up to handle.join()
StopListener ==
    /\ mgr_compositor # "none"
    /\ mpc = 0
    /\ ret = NoRet
    /\ stop_flag' = TRUE
    /\ mpc' = listener_handle
    /\ listener_handle' = 0
    /\ UNCHANGED <<mgr_compositor, mgr_client, layouts, wlock, lpc, line,
                   written_by, nupd, snap, ret, sl>>
    /\ UNCHANGED others

\* handle.join() returns: the thread has ended
JoinReturns ==
    /\ mpc # 0
    /\ lpc[mpc] = "done"
    /\ mpc' = 0
    /\ UNCHANGED <<mgr_compositor, mgr_client, layouts, wlock, stop_flag, listener_handle,
                   lpc, line, written_by, nupd, snap, ret, sl>>
    /\ UNCHANGED others

(***************************************************************************)
(* The listener thread: listen_niri, listen_hyprland, listen_sway, one     *)
(* step per statement that another thread can tell apart.                  *)
(***************************************************************************)
\* what a compositor may put on the event stream
StreamLines(c) ==
    CASE c = "Niri" ->
             {Line("switched", "", <<>>, i) : i \in Indexes}
             \cup {Line("changed", "", nl[1], nl[2]) : nl \in WellFormed}
             \cup {Line("other", "", <<>>, 0)}
      [] c = "Hyprland" ->
             {Line("activelayout", n, <<>>, 0) : n \in Layouts}
             \cup {Line("other", "", <<>>, 0)}
      [] c = "Sway" ->
             {Line(k, "", <<>>, 0) : k \in {"input", "other", "bad_magic"}}
      [] OTHER -> {}

\* NiriClient::parse_event
niri_parse_event(ln) ==
    IF ln.kind = "switched" THEN LayoutEvent("LayoutSwitched", "", ln.idx, KeyboardLayoutsDefault)
    ELSE IF ln.kind = "changed"
    THEN LET l == parse_layouts_response(Response("good", ln.names, ln.idx)) IN
         IF l.names # <<>> THEN LayoutEvent("LayoutsChanged", "", 0, l)
         ELSE NoLayoutEvent
    ELSE NoLayoutEvent

\* 0-based position of n in names; Len(names) when absent
RECURSIVE PositionOf(_, _)
PositionOf(names, n) ==
    IF names = <<>> THEN 0
    ELSE IF Head(names) = n THEN 0
    ELSE 1 + PositionOf(Tail(names), n)

\* a listener that pushes the name without looking for it
position_or_push_AlwaysPush(names, n) == Append(names, n)

\* names.iter().position(..).unwrap_or_else(|| { names.push(..); .. })
position_or_push(names, n) ==
    IF PositionOf(names, n) < Len(names) THEN names ELSE Append(names, n)

\* a write guard that outlives its block
Release_Keep(lock, t) == lock

\* the write guard is dropped at the end of its block
Release(lock, t) == IF lock = t THEN 0 ELSE lock

\* top of the loop: Sway checks the flag before it reads, the other two after
LoopTop(c) == IF c = "Sway" THEN "check" ELSE "read"

\* the first line Niri may answer "EventStream" with, as the quoted strings
\* in it: {"Ok":"Handled"}, a line with "Handled" only, {"Err":...}, and the
\* empty line read at the end of the stream
Acks == {<<"Ok", "Handled">>, <<"Handled">>, <<"Err">>, <<>>}

\* ack.contains("\"tok\"")
contains(ack, tok) == \E i \in 1..Len(ack) : ack[i] = tok

\* a subscription that takes any first line for the acknowledgment
ack_accepted_Any(ack) == TRUE

\* NiriClient::subscribe_events: the test of the first line
ack_accepted(ack) == ~(~contains(ack, "Ok") /\ ~contains(ack, "Handled"))

\* Client::new() and subscribe_events(); Niri's goes on to read a line
LSubscribe(t, ok) ==
    /\ lpc[t] = "subscribe"
    /\ lpc' = [lpc EXCEPT ![t] = IF ~ok THEN "done"
                                 ELSE IF mgr_compositor = "Niri" THEN "ack"
                                 ELSE LoopTop(mgr_compositor)]
    /\ UNCHANGED <<mgr_compositor, mgr_client, layouts, wlock, stop_flag, listener_handle,
                   line, mpc, written_by, nupd, snap, ret, sl>>
    /\ UNCHANGED others

\* Niri answers the "EventStream" request with one line
NiriAnswers(t, ack) ==
    /\ lpc[t] = "ack"
    /\ line[t].kind = "none"
    /\ line' = [line EXCEPT ![t] = Line("ack", "", ack, 0)]
    /\ UNCHANGED <<mgr_compositor, mgr_client, layouts, wlock, stop_flag, listener_handle,
                   lpc, mpc, written_by, nupd, snap, ret, sl>>
    /\ UNCHANGED others

\* NiriClient::subscribe_events from reader.read_line(&mut ack) on, and the
\* match on its result in listen_niri: Err returns from the thread
LAck(t) ==
    /\ lpc[t] = "ack"
    /\ line[t].kind = "ack"
    /\ IF ack_accepted(line[t].names)
       THEN /\ lpc' = [lpc EXCEPT ![t] = LoopTop(mgr_compositor)]
            /\ line' = [line EXCEPT ![t] = NoLine]
       ELSE /\ lpc' = [lpc EXCEPT ![t] = "done"]
            /\ UNCHANGED line
    /\ UNCHANGED <<mgr_compositor, mgr_client, layouts, wlock, stop_flag, listener_handle,
                   mpc, written_by, nupd, snap, ret, sl>>
    /\ UNCHANGED others

has_layout_key_Always(ln) == TRUE

\* json.contains("\"xkb_layout\"") || json.contains("\"xkb_keymap\""): an
\* "input" frame is one whose payload holds one of the two
has_layout_key(ln) == ln.kind = "input"

\* what the loop body makes of a line or frame, up to the write lock or the
\* callback; for Sway with the fresh client and its query
Parsed(t, has_client, resp) ==
    LET c == mgr_compositor
        ln == line[t]
        ev == CASE c = "Niri" -> niri_parse_event(ln)
                [] c = "Sway" /\ has_layout_key(ln) /\ has_client
                   /\ get_keyboard_layouts(c, resp).ok ->
                       LayoutEvent("LayoutsChanged", "", 0,
                                   get_keyboard_layouts(c, resp).layouts)
                [] OTHER -> NoLayoutEvent
    IN
    IF c = "Hyprland" /\ ln.kind = "activelayout"
    THEN /\ lpc' = [lpc EXCEPT ![t] = "lock"]
         /\ UNCHANGED line
    ELSE IF ev.type = "LayoutsChanged"
    THEN /\ lpc' = [lpc EXCEPT ![t] = "lock"]
         /\ line' = [line EXCEPT ![t].event = ev]
    ELSE IF ev.type = "LayoutSwitched"
    THEN /\ lpc' = [lpc EXCEPT ![t] = "callback"]
         /\ line' = [line EXCEPT ![t].event = ev]
    ELSE /\ lpc' = [lpc EXCEPT ![t] = LoopTop(c)]
         /\ line' = [line EXCEPT ![t] = NoLine]

\* reader.lines().next() / read_exact: returns only when the stream has a
\* line, a frame, an end or an error; Sway goes on to the frame's parse
LRead(t, has_client, resp) ==
    /\ lpc[t] = "read"
    /\ line[t].kind # "none"
    /\ IF line[t].kind = "eof"
       THEN /\ lpc' = [lpc EXCEPT ![t] = "done"]
            /\ UNCHANGED line
       ELSE IF mgr_compositor = "Sway"
       THEN Parsed(t, has_client, resp)
       ELSE /\ lpc' = [lpc EXCEPT ![t] = "check"]
            /\ UNCHANGED line
    /\ UNCHANGED <<mgr_compositor, mgr_client, layouts, wlock, stop_flag, listener_handle,
                   mpc, written_by, nupd, snap, ret, sl>>
    /\ UNCHANGED others

\* stop_flag.load(SeqCst); Niri and Hyprland go on to the line's parse
LCheck(t) ==
    /\ lpc[t] = "check"
    /\ IF stop_flag
       THEN /\ lpc' = [lpc EXCEPT ![t] = "done"]
            /\ UNCHANGED line
       ELSE IF mgr_compositor = "Sway"
       THEN /\ lpc' = [lpc EXCEPT ![t] = "read"]
            /\ UNCHANGED line
       ELSE Parsed(t, FALSE, Response("good", <<>>, 0))
    /\ UNCHANGED <<mgr_compositor, mgr_client, layouts, wlock, stop_flag, listener_handle,
                   mpc, written_by, nupd, snap, ret, sl>>
    /\ UNCHANGED others

\* layouts.write()
LLock(t) ==
    /\ lpc[t] = "lock"
    /\ CanWrite(wlock)
    /\ wlock' = t
    /\ line' = [line EXCEPT ![t].before = layouts.names]
    /\ lpc' = [lpc EXCEPT ![t] = "write"]
    /\ UNCHANGED <<mgr_compositor, mgr_client, layouts, stop_flag, listener_handle,
                   mpc, written_by, nupd, snap, ret, sl>>
    /\ UNCHANGED others

\* first store under the guard: the whole snapshot and the end of the guard's
\* block (Niri, Sway), or the names (Hyprland)
LWrite(t) ==
    /\ lpc[t] = "write"
    /\ IF mgr_compositor = "Hyprland"
       THEN /\ layouts' = [layouts EXCEPT !.names = position_or_push(@, line[t].name)]
            /\ written_by' = [written_by EXCEPT !.names = FreshStamp(written_by)]
            /\ lpc' = [lpc EXCEPT ![t] = "write2"]
            /\ UNCHANGED wlock
       ELSE /\ layouts' = line[t].event.layouts
            /\ written_by' = [names |-> FreshStamp(written_by),
                               idx |-> FreshStamp(written_by)]
            /\ lpc' = [lpc EXCEPT ![t] = "callback"]
            /\ wlock' = Release(wlock, t)
    /\ UNCHANGED <<mgr_compositor, mgr_client, stop_flag, listener_handle, line,
                   mpc, nupd, snap, ret, sl>>
    /\ UNCHANGED others

\* Hyprland's second store, cached.current_idx = index, and the end of the
\* guard's block
LWrite2(t) ==
    /\ lpc[t] = "write2"
    /\ LET index == PositionOf(layouts.names, line[t].name) IN
       /\ layouts' = [layouts EXCEPT !.current_idx = index]
       /\ line' = [line EXCEPT ![t].event =
                      LayoutEvent("LayoutSwitched", line[t].name, index,
                                  KeyboardLayoutsDefault)]
    /\ written_by' = [written_by EXCEPT !.idx = written_by.names]
    /\ wlock' = Release(wlock, t)
    /\ lpc' = [lpc EXCEPT ![t] = "callback"]
    /\ UNCHANGED <<mgr_compositor, mgr_client, stop_flag, listener_handle,
                   mpc, nupd, snap, ret, sl>>
    /\ UNCHANGED others

\* callback(event), a callback that calls layouts()
LCallback(t) ==
    /\ lpc[t] = "callback"
    /\ CanRead(wlock)
    /\ line' = [line EXCEPT ![t] = NoLine]
    /\ lpc' = [lpc EXCEPT ![t] = LoopTop(mgr_compositor)]
    /\ UNCHANGED <<mgr_compositor, mgr_client, layouts, wlock, stop_flag, listener_handle,
                   mpc, written_by, nupd, snap, ret, sl>>
    /\ UNCHANGED others

\* answers to the query listen_sway makes; the other loops make none
SwayQueries(c) == IF c = "Sway" THEN Responses(c) ELSE {Response("good", <<>>, 0)}

ListenerStep(t) ==
    \/ \E ok \in BOOLEAN : LSubscribe(t, ok)
    \/ LAck(t)
    \/ \E has_client \in BOOLEAN, resp \in SwayQueries(mgr_compositor) :
          LRead(t, has_client, resp)
    \/ LCheck(t)
    \/ LLock(t)
    \/ LWrite(t)
    \/ LWrite2(t)
    \/ LCallback(t)

\* the compositor sends a line or frame on a thread's open event stream,
\* once the earlier one has been consumed
CompositorWrites(t, ln) ==
    /\ lpc[t] \notin {"none", "subscribe", "ack", "done"}
    /\ line[t].kind = "none"
    /\ nupd.lines < MaxLines
    /\ nupd' = [nupd EXCEPT !.lines = @ + 1]
    /\ line' = [line EXCEPT ![t] = ln]
    /\ UNCHANGED <<mgr_compositor, mgr_client, layouts, wlock, stop_flag, listener_handle,
                   lpc, mpc, written_by, snap, ret, sl>>
    /\ UNCHANGED others

\* the compositor closes the stream, or the read fails
StreamCloses(t) ==
    /\ lpc[t] \notin {"none", "subscribe", "ack", "done"}
    /\ line[t].kind = "none"
    /\ line' = [line EXCEPT ![t] = Line("eof", "", <<>>, 0)]
    /\ UNCHANGED <<mgr_compositor, mgr_client, layouts, wlock, stop_flag, listener_handle,
                   lpc, mpc, written_by, nupd, snap, ret, sl>>
    /\ UNCHANGED others

ManagerNext ==
    \/ \E c \in Compositors, socket_exists \in BOOLEAN : MgrNew(c, socket_exists)
    \/ \E resp \in Responses(mgr_compositor) : MgrInit(resp)
    \/ \E resp \in Responses(mgr_compositor) : MgrRefresh(resp)
    \/ MgrReturns
    \/ ReadLayouts
    \/ DropSnapshot
    \/ StartListener
    \/ StopListener
    \/ JoinReturns
    \/ \E t \in Threads : ListenerStep(t)
    \/ \E t \in Threads : \E ln \in StreamLines(mgr_compositor) : CompositorWrites(t, ln)
    \/ \E t \in Threads : StreamCloses(t)
    \/ \E t \in Threads, ack \in Acks : NiriAnswers(t, ack)

ManagerSpec == Init /\ [][ManagerNext]_vars

\* C34: in listen_sway a well-formed frame leads to a re-query exactly when
\* its payload holds a layout key: when the re-query succeeds the cache is
\* replaced by its result and LayoutsChanged is emitted; when it fails, or
\* when the frame holds no such key, the thread is back at the top of its
\* loop with the cache unchanged and no callback.
C34_SwayFrameRequery ==
    [][\A t \in Threads :
          mgr_compositor = "Sway" =>
             /\ (lpc[t] = "read" /\ lpc'[t] # "read" /\ line[t].kind \in {"input", "other"}) =>
                   /\ layouts' = layouts
                   /\ \/ /\ line[t].kind = "input"
                         /\ lpc'[t] = "lock"
                         /\ line'[t].event.type = "LayoutsChanged"
                         /\ \E resp \in Responses("Sway") :
                               /\ get_keyboard_layouts("Sway", resp).ok
                               /\ line'[t].event.layouts =
                                     get_keyboard_layouts("Sway", resp).layouts
                      \/ /\ lpc'[t] = "check"
                         /\ line'[t] = NoLine
             /\ (lpc[t] = "lock" /\ lpc'[t] # "lock") => lpc'[t] = "write"
             /\ (lpc[t] = "write" /\ lpc'[t] # "write") =>
                   /\ line[t].kind = "input"
                   /\ layouts' = line[t].event.layouts
                   /\ lpc'[t] = "callback"
             /\ (lpc[t] # "callback" /\ lpc'[t] = "callback") => lpc[t] = "write"]_vars

\* a Sway listener thread about to emit LayoutsChanged for the snapshot it
\* has just stored
C34_Witness ==
    \E t \in Threads :
       /\ mgr_compositor = "Sway"
       /\ lpc[t] = "callback"
       /\ line[t].kind = "input"
       /\ line[t].event.type = "LayoutsChanged"
       /\ line[t].event.layouts.names # <<>>
       /\ layouts = line[t].event.layouts

\* C36: after any sequence of init, refresh and listener events of any
\* compositor, a cached snapshot with names has current_idx below the number
\* of names, so that current_name() is None only for an empty snapshot.
C36_IndexInsideNames ==
    layouts.names # <<>> => layouts.current_idx < Len(layouts.names)

\* C39: once stop_listener() has returned, no listener thread of the manager
\* writes the cache or invokes the callback any more, start_listener called
\* again or not; and a line or frame read after the stop flag was set is not
\* dispatched.
C39_NothingAfterStop ==
    [][\A t \in Threads :
          /\ (stop_flag /\ mpc = 0) =>
                /\ lpc[t] \in {"write", "write2"} => lpc'[t] = lpc[t]
                /\ lpc[t] = "callback" => lpc'[t] = lpc[t]
          /\ (stop_flag /\ lpc[t] \in {"read", "check"}) =>
                lpc'[t] \notin {"lock", "callback"}]_vars

\* the scheduler runs every thread that can take a step; the compositor owes
\* nothing
FairManagerSpec ==
    /\ ManagerSpec
    /\ \A t \in Threads : WF_vars(ListenerStep(t))
    /\ WF_vars(JoinReturns)

(***************************************************************************)
(* C13: a listener thread that is about to invoke the callback does not    *)
(* hold the cache's write lock, whichever of the three loops it runs: the  *)
(* guard taken for the event's update has been dropped before              *)
(* callback(event), so the callback's own layouts() read is not blocked by *)
(* the thread that calls it.                                               *)
(***************************************************************************)
C13_CallbackOutsideLock ==
    \A t \in Threads : lpc[t] = "callback" => wlock # t

\* a thread has written the cache for a LayoutsChanged event and stands
\* before its callback
C13_Witness ==
    \E t \in Threads :
        /\ lpc[t] = "callback"
        /\ line[t].event.type = "LayoutsChanged"
        /\ layouts = line[t].event.layouts
        /\ written_by.names # 0

(***************************************************************************)
(* C12: when a listener thread stands before callback(event) and the       *)
(* event is the only thing that has touched the cache (no init or refresh, *)
(* one line sent), the cache already reflects the event: after a           *)
(* LayoutSwitched with index i the cached current_idx is i, after a        *)
(* LayoutsChanged the cached snapshot is the event's snapshot.             *)
(***************************************************************************)
C12_EventUpdatesCache ==
    \A t \in Threads :
        (lpc[t] = "callback" /\ nupd = [queries |-> 0, lines |-> 1]) =>
            /\ line[t].event.type = "LayoutSwitched" =>
                   layouts.current_idx = line[t].event.index
            /\ line[t].event.type = "LayoutsChanged" =>
                   layouts = line[t].event.layouts

(***************************************************************************)
(* C15: when a Niri listener thread stands before callback(event) with a   *)
(* LayoutSwitched event of index i, the event's name is the cached         *)
(* names[i] if i is within the cached list; otherwise the cached snapshot  *)
(* has been invalidated (it is the default snapshot).                      *)
(***************************************************************************)
C15_SwitchNameResolved ==
    \A t \in Threads :
        (/\ mgr_compositor = "Niri"
         /\ lpc[t] = "callback"
         /\ line[t].event.type = "LayoutSwitched") =>
            IF line[t].event.index < Len(layouts.names)
            THEN line[t].event.name = layouts.names[line[t].event.index + 1]
            ELSE layouts = KeyboardLayoutsDefault

(***************************************************************************)
(* C14: a Hyprland activelayout event with layout name N, applied to the   *)
(* names the cache held when the thread took the write lock: if N is among *)
(* them the list is unchanged and current_idx becomes N's first position;  *)
(* otherwise N is appended and current_idx becomes the new last position.  *)
(* The event handed to the callback is LayoutSwitched{name: N, index: that *)
(* position}, and the cached list has no duplicate.                        *)
(***************************************************************************)
NoDuplicates(names) ==
    \A i, j \in 1..Len(names) : names[i] = names[j] => i = j

C14_ActiveLayoutSelects ==
    [][\A t \in Threads :
          (lpc[t] = "write2" /\ lpc'[t] = "callback") =>
              LET N == line[t].name
                  before == line[t].before
                  at == {i \in 1..Len(before) : before[i] = N}
                  pos == IF at = {} THEN Len(before)
                         ELSE (CHOOSE i \in at : \A j \in at : i <= j) - 1
              IN /\ layouts'.names = IF at = {} THEN Append(before, N) ELSE before
                 /\ layouts'.current_idx = pos
                 /\ line'[t].event = LayoutEvent("LayoutSwitched", N, pos,
                                                 KeyboardLayoutsDefault)
                 /\ NoDuplicates(layouts'.names)]_vars

\* "activelayout>>kbd0,German" on a cache of ["English (US)"]
C14_Witness ==
    \E t \in Threads :
        /\ mgr_compositor = "Hyprland"
        /\ lpc[t] = "callback"
        /\ line[t].before = <<"English (US)">>
        /\ line[t].event = LayoutEvent("LayoutSwitched", "German", 1, KeyboardLayoutsDefault)
        /\ layouts = [names |-> <<"English (US)", "German">>, current_idx |-> 1]

(***************************************************************************)
(* C16: at any time at most one listener thread of the manager is alive    *)
(* (spawned and not yet ended), whatever start_listener and stop_listener  *)
(* calls were made; for a compositor without layout events no thread is    *)
(* ever spawned.                                                           *)
(***************************************************************************)
C16_OneListenerThread ==
    /\ Cardinality(Alive) <= 1
    /\ ~supports_layout_events(mgr_compositor) => \A t \in Threads : lpc[t] = "none"

(***************************************************************************)
(* C17: a stop_listener() call that has set the stop flag and waits in     *)
(* handle.join() eventually returns, also when the compositor sends        *)
(* nothing more.                                                           *)
(***************************************************************************)
C17_StopListenerReturns == (mpc # 0) ~> (mpc = 0)

(***************************************************************************)
(* C18: an init() or refresh() call whose query succeeds replaces the      *)
(* cached snapshot with the query's result, which is the default snapshot  *)
(* when the manager has no client; a call whose query fails returns the    *)
(* error and leaves the cached snapshot as it was.                         *)
(***************************************************************************)
C18_QueryReplacesOrKeeps ==
    [][(ret' # ret /\ ret' # NoRet) =>
          /\ IF ret'.ok THEN layouts' = ret'.result ELSE layouts' = layouts
          /\ ~mgr_client => ret'.ok /\ ret'.result = KeyboardLayoutsDefault
          /\ (mgr_client /\ ret'.resp = "not_utf8") => ~ret'.ok]_vars

\* a failed query has left a cache of two names alone
C18_Witness ==
    /\ ret # NoRet
    /\ ~ret.ok
    /\ layouts = [names |-> <<"English (US)", "German">>, current_idx |-> 1]

(***************************************************************************)
(* C19: no snapshot that layouts() returns is torn: its names and its      *)
(* current_idx were written by one and the same update (an init, a refresh *)
(* or one listener event), however readers interleave with the listener    *)
(* threads.                                                                *)
(***************************************************************************)
C19_NoTornSnapshot == snap.taken => ~snap.torn

\* a reader holds a snapshot while a Hyprland listener thread is between its
\* two stores under the write lock
C19_Witness ==
    /\ mgr_compositor = "Hyprland"
    /\ snap.taken
    /\ ~snap.torn
    /\ wlock # 0
    /\ written_by.names # written_by.idx

(***************************************************************************)
(* C20: a query whose response is malformed or unexpected (expected keys   *)
(* missing, wrong header magic, payload not valid text) gives the caller   *)
(* an Ok with the default KeyboardLayouts (no names, current_idx 0), for   *)
(* each of the three clients, and never an error.                          *)
(***************************************************************************)
C20_MalformedGivesDefault ==
    (ret # NoRet /\ mgr_client /\ ret.resp # "good") =>
        ret.ok /\ ret.result = KeyboardLayoutsDefault


(***************************************************************************)
(* The ways a worker ends on its own (listener.rs, listen_to_device).      *)
(***************************************************************************)
\* everything of the workers other than d that a step could change
OtherWorkers(d) ==
    [e \in Devices \ {d} |->
        <<wpc[e], poll_n[e], batch[e], activity[e], pressed_keys[e], stuck[e]>>]

\* the step of worker d sends the event at the head of its batch
SendsHead(d) ==
    /\ wpc[d] = "loop"
    /\ batch[d] # <<>>
    /\ Head(batch[d])[1] \notin IgnoredKeys
    /\ Head(batch[d])[2] \in {0, 1, 2}
    /\ batch'[d] # batch[d]

\* C27: a worker whose send finds the channel closed stops its own loop and
\* returns; the step leaves `running` as it was and changes nothing of the
\* other workers, which stay where they were.
C27_ClosedStopsOnlyThisWorker ==
    [][\A d \in Devices :
          (chan_closed /\ SendsHead(d)) =>
              /\ wpc'[d] = "done"
              /\ running' = running
              /\ chan_closed' = chan_closed
              /\ OtherWorkers(d)' = OtherWorkers(d)]_vars

\* a worker has returned on the closed channel (not by a poll error, not by
\* the flag, which is still set) while another worker is still in its loop
C27_Witness ==
    \E d \in Devices, e \in Devices :
        /\ d # e
        /\ chan_closed /\ running
        /\ wpc[d] = "done" /\ poll_n[d] # -1 /\ seqno[d] > 0
        /\ wpc[e] \notin {"idle", "done"}

\* C28: a poll error ends the worker it happened to and nothing else: the
\* thread exits, `running` and the channel are as before, and the other
\* workers are untouched and go on delivering.
C28_PollErrorEndsOnlyThisWorker ==
    [][\A d \in Devices :
          (wpc[d] = "poll" /\ poll_n'[d] = -1) =>
              /\ wpc'[d] = "done"
              /\ running' = running
              /\ chn' = chn
              /\ OtherWorkers(d)' = OtherWorkers(d)]_vars

\* one worker has left on a poll error; the listener still runs, the channel
\* is open, and it holds an event the other worker delivered
C28_Witness ==
    \E d \in Devices, e \in Devices :
        /\ d # e
        /\ wpc[d] = "done" /\ poll_n[d] = -1 /\ seqno[d] = 0
        /\ running /\ ~chan_closed
        /\ wpc[e] \notin {"idle", "done"}
        /\ \E i \in 1..Len(chan) : chan[i].dev = e


(***************************************************************************)
(* KeyListener::start and process_events, event by event (listener.rs).    *)
(***************************************************************************)
\* C26: when discovery finds no keyboard, start() returns an error, no worker
\* is spawned and `running` stays false.
C26_NoKeyboardsNoStart ==
    (start_ret.r # "none" /\ start_ret.empty) =>
        /\ start_ret.r = "Err"
        /\ ~running
        /\ \A d \in Devices : wpc[d] = "idle"

\* start() has been called with an empty discovery and has returned
C26_Witness == start_ret = [empty |-> TRUE, r |-> "Err"] /\ ~started

\* the step of worker d takes the event at the head of its batch
TakesHead(d) == wpc[d] = "loop" /\ batch[d] # <<>> /\ batch'[d] # batch[d]

\* the step hands exactly this event to try_send: it is queued when the
\* channel is open and has room, and nothing else is ever queued
Sends(d, type, key, is_repeat) ==
    LET room == ~chan_closed /\ Len(chan) < ChanCap
    IN /\ room => /\ Len(chan') = Len(chan) + 1
                  /\ SubSeq(chan', 1, Len(chan)) = chan
                  /\ chan'[Len(chan')].type = type
                  /\ chan'[Len(chan')].key = key
                  /\ chan'[Len(chan')].is_repeat = is_repeat
                  /\ chan'[Len(chan')].dev = d
       /\ ~room => chan' = chan

\* C25: for a key that is not ignored, value 1 sends Pressed (no repeat) and
\* inserts the key into the pressed set, value 0 sends Released and removes
\* it, value 2 sends Pressed with is_repeat and leaves the set alone, any
\* other value sends nothing; an ignored key sends nothing and never changes
\* the set.
C25_EventByValue ==
    [][\A d \in Devices :
          TakesHead(d) =>
              LET key == Head(batch[d])[1]
                  value == Head(batch[d])[2]
                  set == pressed_keys[d]
              IN CASE key \in IgnoredKeys ->
                          chan' = chan /\ pressed_keys'[d] = set
                   [] key \notin IgnoredKeys /\ value = 1 ->
                          Sends(d, "Pressed", key, FALSE) /\ pressed_keys'[d] = set \cup {key}
                   [] key \notin IgnoredKeys /\ value = 0 ->
                          Sends(d, "Released", key, FALSE) /\ pressed_keys'[d] = set \ {key}
                   [] key \notin IgnoredKeys /\ value = 2 ->
                          Sends(d, "Pressed", key, TRUE) /\ pressed_keys'[d] = set
                   [] OTHER ->
                          chan' = chan /\ pressed_keys'[d] = set]_vars

\* a worker has taken both events its device reported: a repeat, which was
\* queued and left the pressed set empty, and an event that sent nothing (an
\* ignored key, or a value that is none of 0, 1, 2)
C25_Witness ==
    \E d \in Devices :
        /\ wpc[d] = "loop" /\ batch[d] = <<>>
        /\ nraw = MaxRaw
        /\ devq[d] = <<>>
        /\ pressed_keys[d] = {}
        /\ Len(chan) = 1 /\ chan[1].is_repeat /\ chan[1].dev = d
        /\ seqno[d] = 1


(***************************************************************************)
(* Niri's subscription (niri.rs subscribe_events, layout.rs listen_niri).  *)
(***************************************************************************)
\* C29: when the first line after "EventStream" holds neither "Ok" nor
\* "Handled", the subscription fails and the listener thread ends: the step
\* writes nothing to the cache, and the thread, being ended, makes no
\* callback afterwards.
C29_NiriAckRequired ==
    [][\A t \in Threads :
          /\ (/\ lpc[t] = "ack" /\ line[t].kind = "ack" /\ lpc'[t] # "ack"
              /\ "Ok" \notin {line[t].names[i] : i \in 1..Len(line[t].names)}
              /\ "Handled" \notin {line[t].names[i] : i \in 1..Len(line[t].names)})
             => /\ lpc'[t] = "done"
                /\ layouts' = layouts
                /\ written_by' = written_by
          /\ lpc[t] = "done" => lpc'[t] = "done"]_vars

\* a Niri listener thread has ended on the line {"Err":...}; the cache is
\* as constructed
C29_Witness ==
    \E t \in Threads :
        /\ mgr_compositor = "Niri"
        /\ lpc[t] = "done"
        /\ line[t].kind = "ack" /\ line[t].names = <<"Err">>
        /\ layouts = KeyboardLayoutsDefault


(***************************************************************************)
(* Pure functions of the compositor clients and of the layout-name         *)
(* resolution, applied to inputs drawn from bounded sets.  `call` holds    *)
(* the last application.                                                   *)
(***************************************************************************)
\* everything but `call`
notcall == <<lvars, wvars, ovars, mgrvars, start_ret, prev, held, swayvars>>

\* one application per behaviour: the functions keep no state between calls
Applied(fn, arg, res) ==
    /\ call = NoPureCall
    /\ call' = [fn |-> fn, arg |-> arg, res |-> res]
    /\ UNCHANGED notcall

(***************************************************************************)
(* SwayClient::build_header (sway.rs).  A u32 is the pair <<hi, lo>> of    *)
(* its 16-bit halves: value = hi * 65536 + lo.                             *)
(***************************************************************************)
IPC_HEADER_SIZE == 14
IPC_GET_INPUTS == 100
\* b"i3-ipc"
IPC_MAGIC == <<105, 51, 45, 105, 112, 99>>

\* halves of the u32 values applied: both ends of the range, byte
\* boundaries, and the message type
Halves == {0, 1, IPC_GET_INPUTS, 255, 256, 65535}
U32s == Halves \X Halves

\* the bytes most significant first
to_be_bytes(v) == <<v[1] \div 256, v[1] % 256, v[2] \div 256, v[2] % 256>>

\* u32::to_le_bytes
to_le_bytes(v) == <<v[2] % 256, v[2] \div 256, v[1] % 256, v[1] \div 256>>

\* u32::from_le_bytes
from_le_bytes(b) == <<b[3] + 256 * b[4], b[1] + 256 * b[2]>>

\* header[from..to] = bytes, on the array as it is
copy_from_slice(header, from, bytes) ==
    [i \in 1..Len(header) |->
        IF i > from /\ i <= from + Len(bytes) THEN bytes[i - from] ELSE header[i]]

build_header(payload_len, message_type) ==
    LET header0 == [i \in 1..IPC_HEADER_SIZE |-> 0]
        header1 == copy_from_slice(header0, 0, IPC_MAGIC)
        header2 == copy_from_slice(header1, 6, to_le_bytes(payload_len))
        header3 == copy_from_slice(header2, 10, to_le_bytes(message_type))
    IN header3

Call_build_header(payload_len, message_type) ==
    Applied("build_header", <<payload_len, message_type>>,
            build_header(payload_len, message_type))

BuildHeaderNext ==
    \E payload_len \in U32s, message_type \in U32s :
        Call_build_header(payload_len, message_type)

\* C30: for every payload length and message type, build_header gives 14
\* bytes that begin with "i3-ipc", and reading bytes 6..10 and 10..14 back
\* as little-endian u32 gives the same payload length and message type.
C30_HeaderRoundTrip ==
    call.fn = "build_header" =>
        /\ Len(call.res) = 14
        /\ SubSeq(call.res, 1, 6) = <<105, 51, 45, 105, 112, 99>>
        /\ from_le_bytes(SubSeq(call.res, 7, 10)) = call.arg[1]
        /\ from_le_bytes(SubSeq(call.res, 11, 14)) = call.arg[2]
        /\ \A i \in 1..14 : call.res[i] \in 0..255

\* the header of a 65,792-byte payload (0x00010100) of type GET_INPUTS
C30_Witness ==
    /\ call.fn = "build_header"
    /\ call.arg = <<<<1, 256>>, <<0, 100>>>>
    /\ call.res = <<105, 51, 45, 105, 112, 99, 0, 1, 1, 0, 100, 0, 0, 0>>


(***************************************************************************)
(* compositor::detect and create_client (compositor/mod.rs).  The          *)
(* environment is the set of the socket variables that are set and the     *)
(* value env::var gives for XDG_CURRENT_DESKTOP (Err when the variable is  *)
(* unset or not Unicode).                                                  *)
(***************************************************************************)
AllCompositors ==
    {"Hyprland", "Sway", "Niri", "River", "Dwl", "Labwc", "Wayfire", "Unknown"}

SocketVars == {"HYPRLAND_INSTANCE_SIGNATURE", "SWAYSOCK", "NIRI_SOCKET",
               "NIRI_SOCKET_PATH", "WAYFIRE_SOCKET"}

Desktop(text) == [ok |-> TRUE, text |-> text]
NoDesktop == [ok |-> FALSE, text |-> <<>>]
Desktops ==
    {NoDesktop,
     Desktop(<<"s", "w", "a", "y">>),
     Desktop(<<"S", "W", "A", "Y">>),
     Desktop(<<"H", "y", "p", "r", "l", "a", "n", "d">>),
     Desktop(<<"n", "i", "r", "i">>),
     Desktop(<<"R", "i", "v", "e", "r">>),
     Desktop(<<"d", "w", "l">>),
     Desktop(<<"l", "a", "b", "w", "c">>),
     Desktop(<<"G", "N", "O", "M", "E">>),
     Desktop(<<>>),
     Desktop(<<"s", "w", "a", "y", ":", "d", "w", "l">>),
     Desktop(<<"l", "a", "b", "w", "c", ":", "r", "i", "v", "e", "r">>),
     Desktop(<<"X", "-", "n", "i", "r", "i">>)}

Envs == [set : SUBSET SocketVars, desktop : Desktops]

\* a detection that looks at XDG_CURRENT_DESKTOP before the socket variables
detect_DesktopFirst(env) ==
    LET desktop_lower == to_lowercase(env.desktop.text)
        has(w) == env.desktop.ok /\ str_contains(desktop_lower, w)
    IN CASE has(<<"r", "i", "v", "e", "r">>) -> "River"
         [] has(<<"d", "w", "l">>) -> "Dwl"
         [] has(<<"l", "a", "b", "w", "c">>) -> "Labwc"
         [] has(<<"h", "y", "p", "r", "l", "a", "n", "d">>) -> "Hyprland"
         [] has(<<"s", "w", "a", "y">>) -> "Sway"
         [] has(<<"n", "i", "r", "i">>) -> "Niri"
         [] "HYPRLAND_INSTANCE_SIGNATURE" \in env.set -> "Hyprland"
         [] "SWAYSOCK" \in env.set -> "Sway"
         [] "NIRI_SOCKET" \in env.set \/ "NIRI_SOCKET_PATH" \in env.set -> "Niri"
         [] "WAYFIRE_SOCKET" \in env.set -> "Wayfire"
         [] OTHER -> "Unknown"

\* detect(): the ifs in their order, each returning
detect(env) ==
    LET is_some(v) == v \in env.set
        desktop_lower == to_lowercase(env.desktop.text)
    IN IF is_some("HYPRLAND_INSTANCE_SIGNATURE") THEN "Hyprland"
       ELSE IF is_some("SWAYSOCK") THEN "Sway"
       ELSE IF is_some("NIRI_SOCKET") \/ is_some("NIRI_SOCKET_PATH") THEN "Niri"
       ELSE IF is_some("WAYFIRE_SOCKET") THEN "Wayfire"
       ELSE IF ~env.desktop.ok THEN "Unknown"
       ELSE IF str_contains(desktop_lower, <<"r", "i", "v", "e", "r">>) THEN "River"
       ELSE IF str_contains(desktop_lower, <<"d", "w", "l">>) THEN "Dwl"
       ELSE IF str_contains(desktop_lower, <<"l", "a", "b", "w", "c">>) THEN "Labwc"
       ELSE IF str_contains(desktop_lower, <<"h", "y", "p", "r", "l", "a", "n", "d">>)
            THEN "Hyprland"
       ELSE IF str_contains(desktop_lower, <<"s", "w", "a", "y">>) THEN "Sway"
       ELSE IF str_contains(desktop_lower, <<"n", "i", "r", "i">>) THEN "Niri"
       ELSE "Unknown"

Call_detect(env) == Applied("detect", env, detect(env))

Call_create_client(c, socket_exists) ==
    Applied("create_client", <<c, socket_exists>>, create_client(c, socket_exists))

\* the priority list for an environment: <<holds, compositor>> per line
Priority(env) ==
    LET d == env.desktop
        \* the word occurs in the value, whatever the case of its letters
        in_desktop(word) ==
            /\ d.ok
            /\ \E i \in 0..(Len(d.text) - Len(word)) :
                   \A j \in 1..Len(word) : lower(d.text[i + j]) = word[j]
    IN << <<"HYPRLAND_INSTANCE_SIGNATURE" \in env.set, "Hyprland">>,
          <<"SWAYSOCK" \in env.set, "Sway">>,
          <<{"NIRI_SOCKET", "NIRI_SOCKET_PATH"} \cap env.set # {}, "Niri">>,
          <<"WAYFIRE_SOCKET" \in env.set, "Wayfire">>,
          <<in_desktop(<<"r", "i", "v", "e", "r">>), "River">>,
          <<in_desktop(<<"d", "w", "l">>), "Dwl">>,
          <<in_desktop(<<"l", "a", "b", "w", "c">>), "Labwc">>,
          <<in_desktop(<<"h", "y", "p", "r", "l", "a", "n", "d">>), "Hyprland">>,
          <<in_desktop(<<"s", "w", "a", "y">>), "Sway">>,
          <<in_desktop(<<"n", "i", "r", "i">>), "Niri">>,
          <<TRUE, "Unknown">> >>

\* C23: detect() returns the compositor of the first line of the priority
\* list that holds (the four socket variables, then the case-insensitive
\* substrings of XDG_CURRENT_DESKTOP, then Unknown), and create_client gives
\* no client for Unknown, River, Dwl, Labwc and Wayfire.
C23_DetectionPriority ==
    /\ call.fn = "detect" =>
           LET rules == Priority(call.arg)
               first == CHOOSE i \in 1..Len(rules) :
                           rules[i][1] /\ \A j \in 1..(i - 1) : ~rules[j][1]
           IN call.res = rules[first][2]
    /\ call.fn = "create_client" =>
           (call.arg[1] \in {"Unknown", "River", "Dwl", "Labwc", "Wayfire"}
               => call.res = FALSE)

\* SWAYSOCK and NIRI_SOCKET_PATH are set and the desktop is "River": Sway
C23_Witness ==
    /\ call.fn = "detect"
    /\ call.arg.set = {"SWAYSOCK", "NIRI_SOCKET_PATH"}
    /\ call.arg.desktop = Desktop(<<"R", "i", "v", "e", "r">>)
    /\ call.res = "Sway"

(***************************************************************************)
(* The three response parsers on lists of names that repeat a name, differ *)
(* in case only, or hold an empty name.                                    *)
(***************************************************************************)
MaxNames == 3
ParserNames == {"English (US)", "German", "german", ""}
ParserInputs == UNION {[1..n -> ParserNames] : n \in 0..MaxNames}

\* the parser of a compositor's client on a well-formed response
parse(c, names) ==
    CASE c = "Hyprland" -> parse_devices_response(Response("good", names, 0)).names
      [] c = "Sway" -> parse_inputs_response(Response("good", names, 0)).names
      [] c = "Niri" -> parse_layouts_response(Response("good", names, 0)).names

Call_parse(c, names) == Applied("parse", <<c, names>>, parse(c, names))

\* position of the first occurrence of a name in a list
FirstAt(names, name) ==
    CHOOSE i \in 1..Len(names) : names[i] = name /\ \A j \in 1..(i - 1) : names[j] # name

\* C22: the names a parser returns are the names of the response in the
\* order of their first appearance, every name once (names are equal when
\* they are the same string, so names that differ in case are both kept).
C22_FirstAppearanceNoDuplicates ==
    call.fn = "parse" =>
        LET names == call.arg[2]
            out == call.res
        IN /\ \A i, j \in 1..Len(out) : i # j => out[i] # out[j]
           /\ {out[i] : i \in 1..Len(out)} = {names[i] : i \in 1..Len(names)} \ {""}
           /\ \A i, j \in 1..Len(out) :
                  i < j => FirstAt(names, out[i]) < FirstAt(names, out[j])

(***************************************************************************)
(* parse_layout_name on the table's keys and on LayoutInputs.              *)
(***************************************************************************)
Call_parse_layout_name(name) ==
    Applied("parse_layout_name", name, parse_layout_name(name))

\* the same characters but for the case of the letters
SameIgnoringCase(a, b) ==
    Len(a) = Len(b) /\ \A i \in 1..Len(a) : lower(a[i]) = lower(b[i])

\* C24: the resolution takes the first of: the table's entry for the name;
\* the entry of a key equal to the name but for case; the code of the
\* language before the first "("; the name itself, trimmed, when it is at
\* most five lowercase letters; ("us", "").  The named examples resolve as
\* stated and every name has a result.
C24_ResolutionOrder ==
    call.fn = "parse_layout_name" =>
        LET name == call.arg
            chars == Chars[name]
            res == call.res
            exact == {e \in LAYOUT_NAME_MAP : e[1] = name}
            nocase == {e \in LAYOUT_NAME_MAP : SameIgnoringCase(Chars[e[1]], chars)}
            prefix == {b \in LanguageBases :
                         \E p \in 1..Len(chars) :
                            /\ chars[p] = "("
                            /\ \A q \in 1..(p - 1) : chars[q] # "("
                            /\ SameIgnoringCase(b[1], trim(SubSeq(chars, 1, p - 1)))}
            code == trim(chars)
            short == /\ Len(code) <= 5
                     /\ \A i \in 1..Len(code) :
                            code[i] \in {LowerCase[j] : j \in 1..Len(LowerCase)}
        IN /\ Len(res) = 2
           /\ name = "Spanish (Latin American)" => res = <<"latam", "">>
           /\ name = "English (US)" => res = <<"us", "">>
           /\ name = "French (Canada)" => res = <<"ca", "fr">>
           /\ name = "de" => res = <<"de", "">>
           /\ name = "Unknown Layout XYZ" => res = <<"us", "">>
           /\ IF exact # {} THEN \E e \in exact : res = <<e[2], e[3]>>
              ELSE IF nocase # {} THEN \E e \in nocase : res = <<e[2], e[3]>>
              ELSE IF prefix # {} THEN \E b \in prefix : res = <<b[2], "">>
              ELSE IF short THEN Chars[res[1]] = code /\ res[2] = ""
              ELSE res = <<"us", "">>

\* "thai" is a short lowercase code and, but for case, a key of the table:
\* the table wins
C24_Witness ==
    /\ call.fn = "parse_layout_name"
    /\ call.arg = "thai"
    /\ call.res = <<"th", "">>

(***************************************************************************)
(* SwayClient::parse_inputs_response on input lists with or without the    *)
(* names array and the active layout's name.                               *)
(***************************************************************************)
\* a well-formed get_inputs answer: the xkb_layout_names array (empty when
\* the key is absent), xkb_active_layout_index (0 when absent, which is what
\* the parser leaves then) and xkb_active_layout_name ("" when absent)
Inputs(names, idx, active) ==
    [kind |-> "good", names |-> names, idx |-> idx, active |-> active]

Call_parse_inputs_response(names, idx, active) ==
    Applied("parse_inputs_response", Inputs(names, idx, active),
            parse_inputs_response(Inputs(names, idx, active)))

\* KeyboardLayouts::current_name: names.get(current_idx), "" for None
current_name(l) ==
    IF l.current_idx < Len(l.names) THEN l.names[l.current_idx + 1] ELSE ""

\* C31: the snapshot parse_inputs_response builds has the entries of the
\* xkb_layout_names array as its names (each once, C22) and
\* xkb_active_layout_index as current_idx, and current_name() is the entry
\* of the array at that index; without a names array the
\* xkb_active_layout_name is the only name.
C31_InputsSnapshot ==
    call.fn = "parse_inputs_response" =>
        LET array == call.arg.names
            entries == {array[i] : i \in 1..Len(array)} \ {""}
            idx == call.arg.idx
            l == call.res
        IN /\ l.current_idx = idx
           /\ entries # {} =>
                 /\ {l.names[i] : i \in 1..Len(l.names)} = entries
                 /\ (idx < Len(array) /\ array[idx + 1] # "")
                        => current_name(l) = array[idx + 1]
           /\ (entries = {} /\ call.arg.active # "") => l.names = <<call.arg.active>>

(***************************************************************************)
(* Hyprland event lines: HyprlandClient::parse_event and parse_layout_event  *)
(* as listen_hyprland applies them to one line of the event socket.          *)
(***************************************************************************)
MaxLine == 6

ACTIVELAYOUT == <<"a", "c", "t", "i", "v", "e", "l", "a", "y", "o", "u", "t">>

LinePrefixes == {ACTIVELAYOUT, <<"w">>, <<>>}

LineTails == UNION {[1..k -> {">", ",", "k"}] : k \in 0..MaxLine}

NoSplit == [some |-> FALSE, l |-> <<>>, r |-> <<>>]

\* pat occurs in str starting at position i
Occurs(str, pat, i) ==
    /\ i + Len(pat) - 1 <= Len(str)
    /\ SubSeq(str, i, i + Len(pat) - 1) = pat

Occurrence_Last(ps) == CHOOSE i \in ps : \A j \in ps : j <= i

\* str::split_once searches from the left: the first occurrence
Occurrence(ps) == CHOOSE i \in ps : \A j \in ps : i <= j

\* str::split_once
split_once(str, pat) ==
    LET ps == {i \in 1..Len(str) : Occurs(str, pat, i)}
    IN IF ps = {} THEN NoSplit
       ELSE LET i == Occurrence(ps)
            IN [some |-> TRUE, l |-> SubSeq(str, 1, i - 1),
                r |-> SubSeq(str, i + Len(pat), Len(str))]

\* HyprlandClient::parse_event
parse_event(ln) == split_once(ln, <<">", ">">>)

\* HyprlandClient::is_layout_event
is_layout_event(event_name) == event_name = ACTIVELAYOUT

\* HyprlandClient::parse_layout_event
parse_layout_event(data) == split_once(data, <<",">>)

\* listen_hyprland on one line: the event, and the layout a LayoutSwitched
\* would carry
hyprland_line(ln) ==
    LET ev == parse_event(ln)
    IN [event |-> ev,
        layout |-> IF ev.some /\ is_layout_event(ev.l)
                   THEN parse_layout_event(ev.r) ELSE NoSplit]

Call_hyprland_line(ln) == Applied("hyprland_line", ln, hyprland_line(ln))

\* C32: a Hyprland event line is split at its first ">>" only, and the
\* payload of an activelayout event at its first comma only, so the layout
\* name keeps every later comma; a line without ">>" gives no event and a
\* payload without a comma gives no layout event.
C32_SplitAtFirstOnly ==
    call.fn = "hyprland_line" =>
        LET ln == call.arg
            ev == call.res.event
            lay == call.res.layout
            sep == <<">", ">">>
        IN /\ ev.some <=> \E i \in 1..Len(ln) : Occurs(ln, sep, i)
           /\ ev.some =>
                 /\ ln = ev.l \o sep \o ev.r
                 /\ \A i \in 1..Len(ev.l) : ~Occurs(ln, sep, i)
           /\ lay.some <=> /\ ev.some
                           /\ ev.l = ACTIVELAYOUT
                           /\ \E i \in 1..Len(ev.r) : ev.r[i] = ","
           /\ lay.some =>
                 /\ ev.r = lay.l \o <<",">> \o lay.r
                 /\ \A i \in 1..Len(lay.l) : lay.l[i] # ","

\* an activelayout line whose layout name itself holds a comma and a ">>"
C32_Witness ==
    /\ call.fn = "hyprland_line"
    /\ call.res.layout.some
    /\ \E i \in 1..Len(call.res.layout.r) : call.res.layout.r[i] = ","
    /\ \E i \in 1..Len(call.res.layout.r) :
          Occurs(call.res.layout.r, <<">", ">">>, i)

(***************************************************************************)
(* HyprlandClient::parse_devices_response on the characters of the answer:   *)
(* the scan for "active_keymap", the colon and the two quotes of the value.  *)
(***************************************************************************)
MaxValue == 6

ACTIVE_KEYMAP ==
    <<"\"", "a", "c", "t", "i", "v", "e", "_", "k", "e", "y", "m", "a", "p", "\"">>

DeviceTails == UNION {[1..k -> {":", "\"", "\\", "a"}] : k \in 0..MaxValue}

\* json[from..].find(pat): the offset inside the slice, -1 for None
find_from(json, pat, from) ==
    LET ps == {i \in (from + 1)..Len(json) : Occurs(json, pat, i)}
    IN IF ps = {} THEN -1 ELSE Occurrence(ps) - 1 - from

RECURSIVE scan_devices(_, _, _)
\* the while loop of parse_devices_response from search_start
scan_devices(json, search_start, names) ==
    LET key_pos == find_from(json, ACTIVE_KEYMAP, search_start)
        abs_pos == search_start + key_pos
        colon_offset == find_from(json, <<":">>, abs_pos)
        value_start == abs_pos + colon_offset + 1
        quote_start_offset == find_from(json, <<"\"">>, value_start)
        value_content_start == value_start + quote_start_offset + 1
        quote_end_offset == find_from(json, <<"\"">>, value_content_start)
        layout_name == SubSeq(json, value_content_start + 1,
                              value_content_start + quote_end_offset)
    IN IF key_pos < 0 THEN names
       ELSE IF colon_offset >= 0 /\ quote_start_offset >= 0 /\ quote_end_offset >= 0
       THEN scan_devices(json, value_content_start + quote_end_offset + 1,
                         IF /\ layout_name # <<>>
                            /\ \A i \in 1..Len(names) : names[i] # layout_name
                         THEN Append(names, layout_name) ELSE names)
       ELSE scan_devices(json, abs_pos + 1, names)

Call_scan_devices(tail) ==
    Applied("scan_devices", tail, scan_devices(ACTIVE_KEYMAP \o tail, 0, <<>>))

RECURSIVE Escaped(_, _)
\* the character at position i follows an unescaped backslash
Escaped(str, i) == i > 1 /\ str[i - 1] = "\\" /\ ~Escaped(str, i - 1)

\* the positions of the quotes that close a string value
ClosingQuotes(str) == {i \in 1..Len(str) : str[i] = "\"" /\ ~Escaped(str, i)}

\* C33: an active_keymap value holding a backslash-escaped quote is extracted
\* as one whole name, ending at the first closing quote that is not escaped.
C33_EscapedQuoteKept ==
    (/\ call.fn = "scan_devices"
     /\ Len(call.arg) > 2
     /\ SubSeq(call.arg, 1, 2) = <<":", "\"">>) =>
        LET value == SubSeq(call.arg, 3, Len(call.arg))
            closing == ClosingQuotes(value)
        IN \A p \in closing :
              (p > 1 /\ \A q \in closing : p <= q)
                  => call.res = <<SubSeq(value, 1, p - 1)>>

(***************************************************************************)
(* The pure functions together.                                            *)
(***************************************************************************)
PureNext ==
    \/ BuildHeaderNext
    \/ \E env \in Envs : Call_detect(env)
    \/ \E c \in AllCompositors, socket_exists \in BOOLEAN :
          Call_create_client(c, socket_exists)
    \/ \E c \in {"Hyprland", "Sway", "Niri"}, names \in ParserInputs :
          Call_parse(c, names)
    \/ \E name \in {e[1] : e \in LAYOUT_NAME_MAP} \cup LayoutInputs :
          Call_parse_layout_name(name)
    \/ \E names \in ParserInputs, idx \in 0..(MaxNames - 1), active \in {"", "German"} :
          Call_parse_inputs_response(names, idx, active)
    \/ \E prefix \in LinePrefixes, tail \in LineTails :
          Call_hyprland_line(prefix \o tail)
    \/ \E tail \in DeviceTails : Call_scan_devices(tail)

PureSpec == Init /\ [][PureNext]_vars


(***************************************************************************)
(* listen_sway's reader on the bytes of one event stream (layout.rs).      *)
(* The compositor writes whole frames: a 14-byte header and the payload    *)
(* the header announces.  A frame is given by whether its header starts    *)
(* with the magic, by the length of its payload, and by whether the        *)
(* payload is an input event naming "xkb_layout" or "xkb_keymap".  Bytes   *)
(* that are not the start of a header do not spell the magic.  The query   *)
(* the loop makes for an input event succeeds.                             *)
(***************************************************************************)
MaxFrames == 3
\* payload lengths: none, one header's worth, and one that is no multiple
PayloadLens == {0, IPC_HEADER_SIZE, 20}

Frame(magic_ok, len, kind) == [magic_ok |-> magic_ok, len |-> len, kind |-> kind]
Frames == {Frame(m, l, k) : m \in BOOLEAN, l \in PayloadLens, k \in {"input", "other"}}
\* the end of the stream, as its last entry
Eof == Frame(FALSE, 0, "eof")

FrameSize(f) == IF f.kind = "eof" THEN 0 ELSE IPC_HEADER_SIZE + f.len

RECURSIVE StreamLen(_)
StreamLen(fs) == IF fs = <<>> THEN 0 ELSE FrameSize(Head(fs)) + StreamLen(Tail(fs))

\* offset of the first byte of the i-th frame
FrameStart(fs, i) == StreamLen(SubSeq(fs, 1, i - 1))

StreamClosed(fs) == fs # <<>> /\ fs[Len(fs)].kind = "eof"

notsway == <<lvars, wvars, ovars, mgrvars, start_ret, prev, held, call>>

\* SwayClient::subscribe_events returned the stream; the loop starts
SwaySubscribed ==
    /\ spc = "none"
    /\ spc' = "read"
    /\ UNCHANGED <<sframes, srd, semitted>>
    /\ UNCHANGED notsway

\* the compositor writes a frame
SwayWrites(f) ==
    /\ spc # "none"
    /\ ~StreamClosed(sframes)
    /\ Len(sframes) < MaxFrames
    /\ sframes' = Append(sframes, f)
    /\ UNCHANGED <<srd, spc, semitted>>
    /\ UNCHANGED notsway

\* the compositor closes the stream
SwayCloses ==
    /\ spc # "none"
    /\ ~StreamClosed(sframes)
    /\ sframes' = Append(sframes, Eof)
    /\ UNCHANGED <<srd, spc, semitted>>
    /\ UNCHANGED notsway

\* `if &header[0..6] != b"i3-ipc" { continue; }`: the 14 bytes are gone,
\* the next read_exact takes the 14 after them
SkipBadHeader(fs, rd) == rd + IPC_HEADER_SIZE

\* one turn of the loop of listen_sway: read_exact of a header, the test of
\* the magic, read_exact of the payload, the callback for an input event
SwayReads ==
    /\ spc = "read"
    /\ LET avail == StreamLen(sframes) - srd
           at == {i \in 1..Len(sframes) :
                     sframes[i].kind # "eof" /\ FrameStart(sframes, i) = srd}
       IN IF avail < IPC_HEADER_SIZE
          THEN \* read_exact returns only at the end of the stream: Err, break
               /\ StreamClosed(sframes)
               /\ srd' = StreamLen(sframes)
               /\ spc' = "done"
               /\ UNCHANGED semitted
          ELSE IF at # {} /\ sframes[CHOOSE i \in at : TRUE].magic_ok
          THEN LET i == CHOOSE i \in at : TRUE IN
               /\ srd' = srd + IPC_HEADER_SIZE + sframes[i].len
               /\ semitted' = IF sframes[i].kind = "input"
                               THEN semitted \cup {i} ELSE semitted
               /\ UNCHANGED spc
          ELSE /\ srd' = SkipBadHeader(sframes, srd)
               /\ UNCHANGED <<spc, semitted>>
    /\ UNCHANGED sframes
    /\ UNCHANGED notsway

SwayStreamNext ==
    \/ SwaySubscribed
    \/ \E f \in Frames : SwayWrites(f)
    \/ SwayCloses
    \/ SwayReads

SwayStreamSpec == Init /\ [][SwayStreamNext]_vars

\* C21: a header without the magic costs that frame only: no callback is
\* made for it, the thread goes on reading, and every well-formed input
\* frame, also one that follows the bad one, is read from its first byte
\* and gets its LayoutsChanged callback.
C21_BadMagicResyncs ==
    /\ \A i \in semitted : sframes[i].magic_ok /\ sframes[i].kind = "input"
    /\ (spc = "done" => StreamClosed(sframes))
    /\ \A i \in 1..Len(sframes) :
          (/\ sframes[i].magic_ok /\ sframes[i].kind = "input"
           /\ srd > FrameStart(sframes, i))
             => i \in semitted

=============================================================================
